---- MODULE Spec2Model ----
(***************************************************************************)
(* Model of the notify_sonarr / notify_radarr plugins' import mode         *)
(* (import_mode and process_files) over a small POSIX file system.         *)
(*                                                                         *)
(* Python strings are sequences of one-character strings, so that the     *)
(* string operations the code relies on (substring test, relpath, join,    *)
(* basename, splitext, glob patterns) are computed as the code computes    *)
(* them.                                                                   *)
(***************************************************************************)
EXTENDS Integers, Sequences, FiniteSets, TLC

-----------------------------------------------------------------------------
(* Python str / os.path / pathlib primitives (POSIX flavour)               *)

\* s.startswith(p)
StartsWith(s, p) == Len(p) <= Len(s) /\ SubSeq(s, 1, Len(p)) = p

\* s.endswith(p)
EndsWith(s, p) == Len(p) <= Len(s) /\ SubSeq(s, Len(s) - Len(p) + 1, Len(s)) = p

\* Python's `p in s` on strings: p occurs somewhere in s
Contains(s, p) == \E i \in 0..(Len(s) - Len(p)) : SubSeq(s, i + 1, i + Len(p)) = p

\* index of the last occurrence of character c in s, 0 when absent (str.rfind + 1)
RFind(s, c) ==
    IF \E i \in 1..Len(s) : s[i] = c
    THEN CHOOSE i \in 1..Len(s) : s[i] = c /\ \A j \in (i + 1)..Len(s) : s[j] # c
    ELSE 0

\* index of the first occurrence of character c in s, 0 when absent
Find(s, c) ==
    IF \E i \in 1..Len(s) : s[i] = c
    THEN CHOOSE i \in 1..Len(s) : s[i] = c /\ \A j \in 1..(i - 1) : s[j] # c
    ELSE 0

\* s.split('/')
RECURSIVE SplitSep(_)
SplitAt(s, k) ==
    IF k = 0 THEN <<s>>
    ELSE <<SubSeq(s, 1, k - 1)>> \o SplitSep(SubSeq(s, k + 1, Len(s)))

SplitSep(s) == SplitAt(s, Find(s, "/"))

\* '/'.join(parts)
RECURSIVE JoinSep(_)
JoinSep(parts) ==
    IF parts = <<>> THEN <<>>
    ELSE IF Len(parts) = 1 THEN parts[1]
    ELSE parts[1] \o <<"/">> \o JoinSep(Tail(parts))

\* os.path.join(a, b)
PathJoin(a, b) ==
    IF StartsWith(b, <<"/">>) THEN b
    ELSE IF a = <<>> \/ EndsWith(a, <<"/">>) THEN a \o b
    ELSE a \o <<"/">> \o b

\* os.path.basename(p)
Basename(p) == SubSeq(p, RFind(p, "/") + 1, Len(p))

\* os.path.splitext(p)[0]: the last dot of the last component splits, dots
\* that lead the component do not
SplitextAt(p, sepIndex, dotIndex) ==
    IF dotIndex > sepIndex
       /\ \E i \in (sepIndex + 1)..(dotIndex - 1) : p[i] # "."
    THEN SubSeq(p, 1, dotIndex - 1)
    ELSE p

SplitextRoot(p) == SplitextAt(p, RFind(p, "/"), RFind(p, "."))

\* the components of os.path.normpath of an absolute path: empty and '.'
\* components dropped, '..' removes the component before it (none at the root)
RECURSIVE NormParts(_, _)
NormStep(h, rest, acc) ==
    IF h = <<>> \/ h = <<".">> THEN NormParts(rest, acc)
    ELSE IF h = <<".", ".">>
    THEN NormParts(rest, IF acc = <<>> THEN acc ELSE SubSeq(acc, 1, Len(acc) - 1))
    ELSE NormParts(rest, Append(acc, h))

NormParts(parts, acc) ==
    IF parts = <<>> THEN acc ELSE NormStep(Head(parts), Tail(parts), acc)

\* [x for x in os.path.abspath(p).split('/') if x], in working directory wd
AbsParts(p, wd) ==
    NormParts(SplitSep(IF StartsWith(p, <<"/">>) THEN p ELSE PathJoin(wd, p)), <<>>)

\* os.path.abspath(p) as a string
AbsPath(p, wd) == <<"/">> \o JoinSep(AbsParts(p, wd))

\* len(os.path.commonprefix([a, b])) on component lists
RECURSIVE CommonLen(_, _)
CommonLen(a, b) ==
    IF a = <<>> \/ b = <<>> \/ Head(a) # Head(b) THEN 0
    ELSE 1 + CommonLen(Tail(a), Tail(b))

\* os.path.relpath(path, start).split(os.sep)[0]
RelList(start_list, path_list, i) ==
    [k \in 1..(Len(start_list) - i) |-> <<".", ".">>]
    \o SubSeq(path_list, i + 1, Len(path_list))

RelFirst(rel_list) == IF rel_list = <<>> THEN <<".">> ELSE rel_list[1]

RelpathLists(start_list, path_list) ==
    RelFirst(RelList(start_list, path_list, CommonLen(start_list, path_list)))

RelpathFirst(path, start, wd) == RelpathLists(AbsParts(start, wd), AbsParts(path, wd))

\* fnmatch(name, '[!.]*.*'): a first character that is not a dot, and a dot
\* anywhere after it
MatchNotDotStarDotStar(name) ==
    /\ Len(name) >= 2
    /\ name[1] # "."
    /\ \E i \in 2..Len(name) : name[i] = "."

\* fnmatch(name, '*.tmp')
MatchStarTmp(name) == EndsWith(name, <<".", "t", "m", "p">>)

\* abspath_dest.replace('\\', '')
StripBackslash(s) == SelectSeq(s, LAMBDA c : c # "\\")


-----------------------------------------------------------------------------
(* The file system: sets of absolute, normalised paths of regular files    *)
(* and of directories.  The operations take resolved paths (what the       *)
(* operating system makes of a path in the working directory).             *)

\* b + '/' for a directory b, the prefix of everything below it
DirPrefix(b) == IF b = <<"/">> THEN b ELSE b \o <<"/">>

\* os.path.exists(p)
PathExists(files, dirs, p) == p \in files \cup dirs

\* os.path.isdir(p)
IsDir(dirs, p) == p \in dirs

\* what pathlib.Path(base).rglob(...) walks: every file and directory below
\* base; nothing when base is not a directory
Descendants(files, dirs, base) ==
    IF IsDir(dirs, base)
    THEN {p \in files \cup dirs : StartsWith(p, DirPrefix(base)) /\ p # base}
    ELSE {}

\* does rglob('[!.]*.*') yield path p
Counted(p) == MatchNotDotStarDotStar(Basename(p))

\* does rglob('*.tmp') yield path p
IsTmp(p) == MatchStarTmp(Basename(p))

\* os.rename(a, b) on regular files (POSIX: an existing b is replaced).
\* The caller checks that a exists.
Rename(files, a, b) == (files \ {a}) \cup {b}

-----------------------------------------------------------------------------
(* Delay decision                                                          *)

\* notify_sonarr: files_remaining
FilesRemaining(sourcefile_count, destfile_count, sources_removed) ==
    IF sources_removed THEN sourcefile_count
    ELSE sourcefile_count - destfile_count

\* notify_sonarr: if files_remaining > 0
SonarrDelays(sourcefile_count, destfile_count, sources_removed) ==
    FilesRemaining(sourcefile_count, destfile_count, sources_removed) > 0

\* variant: the source count is not looked at once the sources are removed
RadarrDelaysAnyRemoved(sourcefile_count, destfile_count, sources_removed) ==
    \/ destfile_count < sourcefile_count
    \/ sources_removed

\* notify_radarr: if destfile_count < sourcefile_count or
\*                   (sources_removed and sourcefile_count != 0)
RadarrDelays(sourcefile_count, destfile_count, sources_removed) ==
    \/ destfile_count < sourcefile_count
    \/ (sources_removed /\ sourcefile_count # 0)

Delays(n, sourcefile_count, destfile_count, sources_removed) ==
    IF n = "sonarr"
    THEN SonarrDelays(sourcefile_count, destfile_count, sources_removed)
    ELSE RadarrDelays(sourcefile_count, destfile_count, sources_removed)

-----------------------------------------------------------------------------
(* Queue matching                                                          *)

\* a download_id or kwarg that is None / not passed
None == "None"

\* item.get(key): the value, or none when the record has no such key
ItemGet(item, key, none) == IF key \in DOMAIN item THEN item[key] ELSE none

\* Python truth of a downloadId (None and '' are false)
TruthyId(v) == v # None /\ v # ""

\* variant: extensions are ignored for directories as well
ItemMatchesByStem(is_dir, dest_basename, item_output_basename) ==
    SplitextRoot(dest_basename) = SplitextRoot(item_output_basename)

\* the match rule of both notifiers for one queue record with an outputPath
ItemMatches(is_dir, dest_basename, item_output_basename) ==
    IF is_dir
    THEN dest_basename = item_output_basename
    ELSE SplitextRoot(dest_basename) = SplitextRoot(item_output_basename)

\* variant: extension_match starts out False
ExtensionMatchUnset(is_dir, dest_basename, item_output_basename) == FALSE

\* notify_radarr: extension_match after a record matched
ExtensionMatch(is_dir, dest_basename, item_output_basename) ==
    IF is_dir THEN TRUE ELSE dest_basename = item_output_basename

NoMatch == [match_index |-> 0, download_id |-> None, removal_reached |-> FALSE]

\* notify_sonarr: for item in queue.get('records', []), from record i on
RECURSIVE SonarrScan(_, _, _, _)
SonarrItem(records, i, item, is_dir, dest_basename) ==
    IF ItemGet(item, "outputPath", <<>>) = <<>>
    THEN SonarrScan(records, i + 1, is_dir, dest_basename)
    ELSE IF ItemMatches(is_dir, dest_basename, Basename(item.outputPath))
    THEN [match_index |-> i,
          download_id |-> ItemGet(item, "downloadId", None),
          removal_reached |-> FALSE]
    ELSE SonarrScan(records, i + 1, is_dir, dest_basename)

SonarrScan(records, i, is_dir, dest_basename) ==
    IF i > Len(records) THEN NoMatch
    ELSE SonarrItem(records, i, records[i], is_dir, dest_basename)

\* notify_radarr: for item in queue.get('records', []), from record i on.
\* removal_reached: the del_queue_bulk statement was reached; its argument
\* `data` is not defined in import_mode, so the statement raises NameError
\* before the request is made.
RECURSIVE RadarrScan(_, _, _, _)
RadarrItem(records, i, item, is_dir, dest_basename) ==
    IF ItemGet(item, "outputPath", <<>>) = <<>>
    THEN RadarrScan(records, i + 1, is_dir, dest_basename)
    ELSE IF ItemMatches(is_dir, dest_basename, Basename(item.outputPath))
    THEN IF ExtensionMatch(is_dir, dest_basename, Basename(item.outputPath))
         THEN [match_index |-> i,
               download_id |-> ItemGet(item, "downloadId", None),
               removal_reached |-> FALSE]
         ELSE [match_index |-> i,
               download_id |-> None,
               removal_reached |-> TRUE]
    ELSE RadarrScan(records, i + 1, is_dir, dest_basename)

RadarrScan(records, i, is_dir, dest_basename) ==
    IF i > Len(records) THEN NoMatch
    ELSE RadarrItem(records, i, records[i], is_dir, dest_basename)

\* variant: the loop has no break, the last matching record wins
ScanFrom(n, records, i, is_dir, dest_basename) ==
    IF n = "sonarr" THEN SonarrScan(records, i, is_dir, dest_basename)
    ELSE RadarrScan(records, i, is_dir, dest_basename)

PreferLater(m, later) == IF later.match_index = 0 THEN m ELSE later

RECURSIVE ScanLast(_, _, _, _, _)
KeepLater(m, n, records, is_dir, dest_basename) ==
    IF m.match_index = 0 THEN m
    ELSE PreferLater(m, ScanLast(n, records, m.match_index + 1, is_dir, dest_basename))

ScanLast(n, records, i, is_dir, dest_basename) ==
    KeepLater(ScanFrom(n, records, i, is_dir, dest_basename), n, records, is_dir,
              dest_basename)

ScanQueueLast(n, records, is_dir, dest_basename) ==
    ScanLast(n, records, 1, is_dir, dest_basename)

\* the loop over queue.get('records', []) of notifier n
ScanQueue(n, records, is_dir, dest_basename) ==
    IF n = "sonarr" THEN SonarrScan(records, 1, is_dir, dest_basename)
    ELSE RadarrScan(records, 1, is_dir, dest_basename)

-----------------------------------------------------------------------------
(* Requests to the remote API, as logged by an invocation                  *)

GetQueueCall == [api |-> "get_queue", path |-> <<>>, downloadClientId |-> None]

\* api.post_command('DownloadedEpisodesScan' / 'DownloadedMoviesScan', ...)
ScanCall(abspath_dest, download_id) ==
    [api |-> "post_command", path |-> abspath_dest,
     downloadClientId |-> IF TruthyId(download_id) THEN download_id ELSE None]

\* variant: any 'message' key counts, an empty one as well
ScanFailedOnKey(scan_result) ==
    scan_result.type = "dict" /\ "message" \in DOMAIN scan_result

\* isinstance(result, dict) and result.get('message'); a response is a record
\* of its Python type and, for a dict, its keys
ScanFailed(scan_result) ==
    scan_result.type = "dict" /\ TruthyId(ItemGet(scan_result, "message", None))

-----------------------------------------------------------------------------
(* The environment: directories, tasks and queue snapshots                 *)

\* number of files of the staged directory delivery
NumStaged == 2

TmpSuffix == <<".", "t", "m", "p">>

RootDir         == <<"/">>
OtherCwd        == <<"/", "w">>
IntermediateDir == <<"/", "i", "n">>          \* where the mover takes files from
ImportDir       == <<"/", "i", "m">>          \* where files are delivered
StagedSourceDir == IntermediateDir \o <<"/", "s">>
StagedDestDir   == ImportDir \o <<"/", "s">>
InPlaceDir      == ImportDir \o <<"/", "t">>

\* names of the files of the staged directory: a media file, a file without
\* an extension, further media files
StagedNames == << <<"a", ".", "m">>, <<"c">>, <<"b", ".", "m">>, <<"d", ".", "m">> >>

StagedIds == 1..NumStaged

StagedSource(i) == StagedSourceDir \o <<"/">> \o StagedNames[i]
StagedDest(i)   == StagedDestDir \o <<"/">> \o StagedNames[i]

\* a dot file of the staged directory that is never processed
StagedDotFile == StagedSourceDir \o <<"/", ".", "n", ".", "m">>

\* a file processed in place under the import directory, remuxed f.m -> f.k
FileSource == ImportDir \o <<"/", "f", ".", "m">>
FileDest   == ImportDir \o <<"/", "f", ".", "k">>
\* a small file processed in place
SmallFile  == ImportDir \o <<"/", "g", ".", "m">>
\* a file of a directory processed in place
InPlaceFile == InPlaceDir \o <<"/", "x", ".", "m">>

\* a task of the host: data['source_data']['abspath'], data['destination_files']
StagedTask(i) == [source_file |-> StagedSource(i), destination_files |-> <<StagedDest(i)>>]
FileTask      == [source_file |-> FileSource, destination_files |-> <<FileDest>>]
SmallTask     == [source_file |-> SmallFile, destination_files |-> <<SmallFile>>]
InPlaceTask   == [source_file |-> InPlaceFile, destination_files |-> <<InPlaceFile>>]

Tasks == {StagedTask(i) : i \in StagedIds} \cup {FileTask, SmallTask, InPlaceTask}

\* a file delivered outside the import directory
OutsideFile == OtherCwd \o <<"/", "y", ".", "m">>

\* tasks with several destination files
OutsideFirstTask ==
    [source_file |-> FileSource, destination_files |-> <<OutsideFile, FileDest, SmallFile>>]
SmallFirstTask ==
    [source_file |-> FileSource, destination_files |-> <<SmallFile, OutsideFile, FileDest>>]
OutsideLastTask ==
    [source_file |-> FileSource, destination_files |-> <<FileDest, OutsideFile>>]

FilesTasks == {OutsideFirstTask, SmallFirstTask, OutsideLastTask, FileTask, SmallTask}

DestFiles ==
    {t.destination_files[k] : t \in Tasks, k \in 1..1}
        \cup {OutsideFirstTask.destination_files[k] : k \in 1..3}

InitialDirs == {RootDir, OtherCwd, IntermediateDir, ImportDir, StagedSourceDir, InPlaceDir}

\* os.stat(path).st_size in MB
FileSizes == [p \in DestFiles |-> IF p = SmallFile THEN 50 ELSE 200]

DlDir == <<"/", "d", "l", "/">>

\* queue snapshots: records with an optional outputPath and downloadId
QueueA ==
    << [downloadId |-> "D0"],
       [outputPath |-> DlDir \o <<"f", ".", "m">>, downloadId |-> "D1"],
       [outputPath |-> DlDir \o <<"f", ".", "k">>, downloadId |-> "D2"],
       [outputPath |-> DlDir \o <<"s", ".", "x">>, downloadId |-> "D3"],
       [outputPath |-> DlDir \o <<"s">>, downloadId |-> "D4"],
       [outputPath |-> DlDir \o <<"s">>, downloadId |-> "D5"],
       [outputPath |-> DlDir \o <<"t", ".", "x">>, downloadId |-> "D6"],
       [outputPath |-> DlDir \o <<"t">>] >>

QueueB ==
    << [outputPath |-> <<>>, downloadId |-> "D0"],
       [outputPath |-> DlDir \o <<"f", ".", "k">>, downloadId |-> "D2"],
       [outputPath |-> DlDir \o <<"f", ".", "m">>, downloadId |-> "D1"],
       [outputPath |-> DlDir \o <<"s">>, downloadId |-> "D5"],
       [outputPath |-> DlDir \o <<"s">>, downloadId |-> "D4"],
       [outputPath |-> DlDir \o <<"t">>, downloadId |-> "D7"],
       [outputPath |-> DlDir \o <<"g", ".", "m">>, downloadId |-> ""] >>

Queues == {QueueA, QueueB}

\* what the import-scan request returns: a dict without or with a 'message'
ScanResults == {[type |-> "dict"], [type |-> "dict", message |-> "error"]}

\* further responses: a dict with an empty 'message', a list, a string
ScanResponses ==
    ScanResults \cup {[type |-> "dict", message |-> ""], [type |-> "list"], [type |-> "str"]}

Notifiers == {"sonarr", "radarr"}

Cwds == {RootDir, OtherCwd}

\* Settings.settings['minimum_file_size'] = '100MB', in MB
MinimumFileSizeMB == 100

\* Settings.settings of a notifier.  sources_removed is read only in the delay
\* branch of import_mode, which needs delay_import and an intermediate_root;
\* it is left off elsewhere.
SettingsSpace ==
    {st \in [mode              : {"import_mode"},
             delay_import      : BOOLEAN,
             intermediate_root : {<<>>, IntermediateDir},
             import_root       : {ImportDir, <<>>},
             sources_removed   : BOOLEAN,
             minimum_file_size : {MinimumFileSizeMB}] :
        st.sources_removed => (st.delay_import /\ st.intermediate_root # <<>>)}

\* Settings.settings with the file-size switch, for deliveries of single files
FilesSettingsSpace ==
    [mode                      : {"import_mode"},
     limit_import_on_file_size : BOOLEAN,
     delay_import              : BOOLEAN,
     intermediate_root         : {<<>>, IntermediateDir},
     import_root               : {ImportDir},
     sources_removed           : {FALSE},
     minimum_file_size         : {MinimumFileSizeMB}]

-----------------------------------------------------------------------------
(* import_mode(api, source_path, dest_path, intermediate_root, import_root, *)
(*             sources_removed)                                             *)

\* verify we've reconstructed paths correctly: Python's `in` on strings
PathsValidPrefix(source_path, dest_path, abspath_source, abspath_dest) ==
    StartsWith(source_path, abspath_source) /\ StartsWith(dest_path, abspath_dest)

PathsValid(source_path, dest_path, abspath_source, abspath_dest) ==
    Contains(source_path, abspath_source) /\ Contains(dest_path, abspath_dest)

\* The head of import_mode: the paths it reconstructs from the roots, the
\* verdict of the validation, and what the operating system resolves the
\* paths it goes on to use to (real_*), in working directory wd.
Reconstructed(wd, source_path, dest_path, source_basename, dest_basename, abspath_source, abspath_dest) ==
        [source_basename |-> source_basename,
         dest_basename   |-> dest_basename,
         abspath_source  |-> abspath_source,
         abspath_dest    |-> abspath_dest,
         valid           |-> PathsValid(source_path, dest_path, abspath_source, abspath_dest),
         real_source     |-> AbsPath(abspath_source, wd),
         real_dest       |-> AbsPath(abspath_dest, wd),
         real_dest_path  |-> AbsPath(dest_path, wd),
         real_newname    |-> AbsPath(dest_path \o TmpSuffix, wd)]

AbspathDest(n, import_root, dest_basename) ==
    IF n = "sonarr"
    THEN StripBackslash(PathJoin(import_root, dest_basename))
    ELSE PathJoin(import_root, dest_basename)

Basenames(n, wd, source_path, dest_path, intermediate_root, import_root, source_basename, dest_basename) ==
    Reconstructed(wd, source_path, dest_path, source_basename, dest_basename,
                  PathJoin(intermediate_root, source_basename),
                  AbspathDest(n, import_root, dest_basename))

Reconstruct(n, wd, source_path, dest_path, intermediate_root, import_root) ==
    Basenames(n, wd, source_path, dest_path, intermediate_root, import_root,
              RelpathFirst(source_path, intermediate_root, wd),
              RelpathFirst(dest_path, import_root, wd))

\* len(list(pathlib.Path(base).rglob('[!.]*.*')))
CountFiles(files, dirs, base) ==
    Cardinality({p \in Descendants(files, dirs, base) : Counted(p)})

\* list(pathlib.Path(base).rglob('*.tmp'))
TmpFiles(files, dirs, base) ==
    {p \in Descendants(files, dirs, base) : IsTmp(p)}

\* for tmp_file in list(rglob('*.tmp')): os.rename(tmp_file, splitext(tmp_file)[0])
\* (in the order of the directory scan; renames of distinct files to distinct
\* names commute)
RECURSIVE UnhideAll(_, _)
UnhideOne(files, tmp, t) == UnhideAll(Rename(files, t, SplitextRoot(t)), tmp \ {t})

UnhideAll(files, tmp) ==
    IF tmp = {} THEN files ELSE UnhideOne(files, tmp, CHOOSE x \in tmp : TRUE)

\* The record of one invocation of import_mode, as it starts: its arguments,
\* the reconstructed paths rc, and nothing done yet.
\*   calls           the requests made to the remote API, in order
\*   files_at_queue  the files at the moment of the first request
\*   files_after     the files now (at the end: when the invocation ends)
\*   outcome         "rejected"   path validation failed
\*                   "hidden"     delayed: returned after the hide step
\*                   "raised"     an exception left the function
\*                   "suppressed" notify_sonarr returned without an import
\*                   "imported" / "failed"  the import-scan was posted
Begin(n, files, source_path, dest_path, intermediate_root, import_root, sources_removed, rc) ==
    [notifier          |-> n,
     source_path       |-> source_path,
     dest_path         |-> dest_path,
     intermediate_root |-> intermediate_root,
     import_root       |-> import_root,
     sources_removed   |-> sources_removed,
     abspath_source    |-> rc.abspath_source,
     abspath_dest      |-> rc.abspath_dest,
     dest_basename     |-> rc.dest_basename,
     valid             |-> rc.valid,
     real_source       |-> rc.real_source,
     real_dest         |-> rc.real_dest,
     real_dest_path    |-> rc.real_dest_path,
     real_newname      |-> rc.real_newname,
     is_dir            |-> FALSE,
     counted           |-> FALSE,
     sourcefile_count  |-> 0,
     destfile_count    |-> 0,
     delay             |-> FALSE,
     files_before      |-> files,
     files_at_queue    |-> {},
     files_after       |-> files,
     calls             |-> <<>>,
     queue             |-> <<>>,
     match_index       |-> 0,
     download_id       |-> None,
     removal_reached   |-> FALSE,
     result            |-> None,
     outcome           |-> "rejected"]

\* variant: notify_sonarr does not return before the import-scan
DispatchAlways(inv, scan_result) ==
    IF inv.removal_reached
    THEN [inv EXCEPT !.outcome = "raised"]
    ELSE [inv EXCEPT !.calls = Append(@, ScanCall(inv.abspath_dest, inv.download_id)),
                     !.result = scan_result,
                     !.outcome = IF ScanFailed(scan_result) THEN "failed" ELSE "imported"]

\* Run import: post the import-scan, by downloadClientId when there is one;
\* notify_sonarr returns before it for a directory with a download_id
Dispatch(inv, scan_result) ==
    IF inv.removal_reached
    THEN [inv EXCEPT !.outcome = "raised"]         \* del_queue_bulk(data=data): NameError
    ELSE IF inv.notifier = "sonarr" /\ TruthyId(inv.download_id) /\ inv.is_dir
    THEN [inv EXCEPT !.outcome = "suppressed"]
    ELSE [inv EXCEPT !.calls = Append(@, ScanCall(inv.abspath_dest, inv.download_id)),
                     !.result = scan_result,
                     !.outcome = IF ScanFailed(scan_result) THEN "failed" ELSE "imported"]

\* queue = api.get_queue() and the scan of its records
Scanned(inv, queue, scan, scan_result) ==
    Dispatch([inv EXCEPT !.files_at_queue = inv.files_after,
                         !.calls = <<GetQueueCall>>,
                         !.queue = queue,
                         !.match_index = scan.match_index,
                         !.download_id = scan.download_id,
                         !.removal_reached = scan.removal_reached],
             scan_result)

Match(inv, queue, scan_result) ==
    Scanned(inv, queue, ScanQueue(inv.notifier, queue, inv.is_dir, inv.dest_basename),
            scan_result)

\* os.rename(dest_path, newname)
HideRename(inv) ==
    IF inv.real_dest_path \notin inv.files_after
    THEN [inv EXCEPT !.outcome = "raised"]         \* os.rename: FileNotFoundError
    ELSE [inv EXCEPT !.files_after = Rename(@, inv.real_dest_path, inv.real_newname),
                     !.outcome = "hidden"]

\* variant: the rename is not guarded by os.path.exists(newname)
HideAlways(inv, dirs) ==
    IF inv.real_dest_path \notin inv.files_after
    THEN [inv EXCEPT !.outcome = "raised"]
    ELSE [inv EXCEPT !.files_after = Rename(@, inv.real_dest_path, inv.real_newname),
                     !.outcome = "hidden"]

\* hide the file to prevent early import, and return
Hide(inv, dirs) ==
    IF PathExists(inv.files_after, dirs, inv.real_newname)
    THEN [inv EXCEPT !.outcome = "hidden"]
    ELSE HideRename(inv)

\* variant: the hidden files are left hidden
UnhideNone(inv, dirs) == inv

\* unhide all hidden files
Unhide(inv, dirs) ==
    [inv EXCEPT !.files_after = UnhideAll(@, TmpFiles(@, dirs, inv.real_dest))]

\* os.chmod(abspath_dest, 0o777), then on to the queue
Chmod(inv, dirs, queue, scan_result) ==
    IF ~PathExists(inv.files_after, dirs, inv.real_dest)
    THEN [inv EXCEPT !.outcome = "raised"]         \* os.chmod: FileNotFoundError
    ELSE Match(inv, queue, scan_result)

\* the two counts and the decision taken on them
Count(inv, dirs) ==
    [inv EXCEPT !.counted = TRUE,
                !.sourcefile_count = CountFiles(inv.files_before, dirs, inv.real_source),
                !.destfile_count = CountFiles(inv.files_before, dirs, inv.real_dest)]

\* variant: the invocation never delays
DecideProceed(inv) == inv

Decide(inv) ==
    [inv EXCEPT !.delay = Delays(inv.notifier, inv.sourcefile_count,
                                 inv.destfile_count, inv.sources_removed)]

DelayBranch(inv, dirs, queue, scan_result) ==
    IF inv.delay
    THEN Hide(inv, dirs)
    ELSE Chmod(Unhide(inv, dirs), dirs, queue, scan_result)

\* if is_dir and intermediate_root != import_root
Validated(inv, dirs, queue, scan_result) ==
    IF inv.is_dir /\ inv.intermediate_root # inv.import_root
    THEN DelayBranch(Decide(Count(inv, dirs)), dirs, queue, scan_result)
    ELSE Match(inv, queue, scan_result)

\* verify we've reconstructed paths correctly, then is_dir = os.path.isdir(abspath_source)
Validate(inv, dirs, queue, scan_result) ==
    IF ~inv.valid
    THEN inv
    ELSE Validated([inv EXCEPT !.is_dir = IsDir(dirs, inv.real_source)], dirs, queue,
                   scan_result)

\* One invocation of import_mode of notifier n on the file system (files,
\* dirs) in working directory wd; queue is what api.get_queue() returns and
\* scan_result what the import-scan post_command returns.
ImportMode(n, files, dirs, wd, source_path, dest_path, intermediate_root, import_root, sources_removed, queue, scan_result) ==
    Validate(Begin(n, files, source_path, dest_path, intermediate_root, import_root,
                   sources_removed,
                   Reconstruct(n, wd, source_path, dest_path, intermediate_root,
                               import_root)),
             dirs, queue, scan_result)

-----------------------------------------------------------------------------
(* process_files(settings, source_file, destination_files, host_url, api_key) *)

\* variant: delay_import is not looked at
EffectiveIgnoringDelay(st) ==
    IF st.intermediate_root # <<>> THEN st.intermediate_root ELSE st.import_root

\* the intermediate_root that process_files hands to import_mode
EffectiveIntermediateRoot(st) ==
    IF st.delay_import /\ st.intermediate_root # <<>>
    THEN st.intermediate_root
    ELSE st.import_root

\* check_file_size_under_max_file_size(path, minimum_file_size), given the
\* size of the file
FileSizeUnder(size, minimum_file_size) == ~(minimum_file_size < size)

\* the loop of process_files after a call of import_mode returned or raised
Invoked(acc, inv) ==
    [acc EXCEPT !.files = inv.files_after,
                !.invs = Append(@, inv),
                !.raised = (inv.outcome = "raised")]

\* One pass of the loop over destination_files (absolute paths); acc carries
\* the file system and what the loop did so far, sizes maps a path to the
\* size of the file there.  An exception ends the loop.
ProcessOne(n, st, dirs, wd, sizes, source_file, dest_file, queue, scan_result, acc) ==
    IF acc.raised \/ st.mode # "import_mode"
    THEN acc
    ELSE IF ~st.delay_import /\ ~PathExists(acc.files, dirs, dest_file)
    THEN [acc EXCEPT !.raised = TRUE]                      \* os.stat: FileNotFoundError
    ELSE IF ~st.delay_import /\ FileSizeUnder(sizes[dest_file], st.minimum_file_size)
    THEN [acc EXCEPT !.skipped = Append(@, dest_file)]     \* continue
    ELSE Invoked(acc, ImportMode(n, acc.files, dirs, wd, source_file, dest_file,
                                 EffectiveIntermediateRoot(st), st.import_root,
                                 st.sources_removed, queue, scan_result))

\* for dest_file in destination_files: ...
RECURSIVE ProcessFrom(_, _, _, _, _, _, _, _, _, _, _)
ProcessFrom(n, st, dirs, wd, sizes, source_file, destination_files, queue, scan_result, i, acc) ==
    IF i > Len(destination_files) THEN acc
    ELSE ProcessFrom(n, st, dirs, wd, sizes, source_file, destination_files, queue,
                     scan_result, i + 1,
                     ProcessOne(n, st, dirs, wd, sizes, source_file,
                                destination_files[i], queue, scan_result, acc))

ProcessFiles(n, st, files, dirs, wd, sizes, source_file, destination_files, queue, scan_result) ==
    ProcessFrom(n, st, dirs, wd, sizes, source_file, destination_files, queue,
                scan_result, 1,
                [files |-> files, invs |-> <<>>, skipped |-> <<>>, raised |-> FALSE])

-----------------------------------------------------------------------------
(* The state machine                                                       *)

NoRun == [notifier |-> "none", source_file |-> <<>>, destination_files |-> <<>>,
          invs |-> <<>>, skipped |-> <<>>, raised |-> FALSE]

VARIABLES
    cwd,        \* the working directory of the host process
    settings,   \* the plugin settings (both notifiers configured alike)
    fs_files,   \* regular files on disk
    fs_dirs,    \* directories on disk
    run         \* what the last call of process_files did

vars == <<cwd, settings, fs_files, fs_dirs, run>>

Init ==
    /\ cwd \in Cwds
    /\ settings \in SettingsSpace
    \* the working directory matters only to a relative root
    /\ cwd = OtherCwd => settings.import_root = <<>>
    /\ fs_files = {StagedSource(i) : i \in StagedIds}
                  \cup {StagedDotFile, FileDest, SmallFile, InPlaceFile}
    /\ fs_dirs = InitialDirs
    /\ run = NoRun

\* a destination file has been delivered: it is there, or hidden as .tmp
Delivered(files, dest) == dest \in files \/ (dest \o TmpSuffix) \in files

\* The mover delivers file i of the staged directory into the import
\* directory; it removes the source when it is configured to (the setting
\* sources_removed says how the mover is configured).
Deliver(i) ==
    /\ ~Delivered(fs_files, StagedDest(i))
    /\ fs_files' = (fs_files \cup {StagedDest(i)})
                   \ (IF settings.sources_removed THEN {StagedSource(i)} ELSE {})
    /\ fs_dirs' = fs_dirs \cup {StagedDestDir}
    /\ UNCHANGED <<cwd, settings, run>>

\* on_postprocessor_task_results of notifier n for a task whose files have
\* been delivered
NotifyOf(n, tasks, scan_results) ==
    \E task \in tasks, queue \in Queues, scan_result \in scan_results :
        /\ \A k \in DOMAIN task.destination_files :
              Delivered(fs_files, task.destination_files[k])
        /\ \E r \in {ProcessFiles(n, settings, fs_files, fs_dirs, cwd, FileSizes,
                                   task.source_file, task.destination_files,
                                   queue, scan_result)} :
               /\ fs_files' = r.files
               /\ run' = [notifier |-> n,
                          source_file |-> task.source_file,
                          destination_files |-> task.destination_files,
                          invs |-> r.invs, skipped |-> r.skipped,
                          raised |-> r.raised]
        /\ UNCHANGED <<cwd, settings, fs_dirs>>

Notify(n) == NotifyOf(n, Tasks, ScanResults)

NotifySonarr == Notify("sonarr")
NotifyRadarr == Notify("radarr")

Next ==
    \/ \E i \in StagedIds : Deliver(i)
    \/ NotifySonarr
    \/ NotifyRadarr

Spec == Init /\ [][Next]_vars

-----------------------------------------------------------------------------
(* The delay decision on its own: both notifiers' conditions applied to    *)
(* every pair of counts up to MaxCount                                     *)

MaxCount == 5

InitDelay ==
    /\ cwd = RootDir
    /\ settings \in {st \in SettingsSpace : st.delay_import /\ st.intermediate_root # <<>>
                                            /\ st.import_root # <<>>}
    /\ fs_files = {}
    /\ fs_dirs = {}
    /\ run \in [notifier         : {"none"},
                sourcefile_count : 0..MaxCount,
                destfile_count   : 0..MaxCount,
                sources_removed  : {settings.sources_removed},
                delay            : {FALSE}]

\* notifier n takes its decision on the counts
DecideFor(n) ==
    /\ run.notifier = "none"
    /\ run' = Decide([run EXCEPT !.notifier = n])
    /\ UNCHANGED <<cwd, settings, fs_files, fs_dirs>>

DecideSonarr == DecideFor("sonarr")
DecideRadarr == DecideFor("radarr")

NextDelay == DecideSonarr \/ DecideRadarr

SpecDelay == InitDelay /\ [][NextDelay]_vars

-----------------------------------------------------------------------------
(* The match rule on its own: both notifiers' scans applied to a queue of  *)
(* one record, for every pair of names                                    *)

\* basenames of deliveries and of records' outputPath
MatchNames ==
    { <<"s">>, <<"s", ".", "x">>, <<"f", ".", "m">>, <<"f", ".", "k">>, <<"f">>,
      <<".", "f">>, <<"f", ".", "m", ".", "k">>, <<"f", ".">> }

\* a queue whose only record has the outputPath /dl/name
OneRecord(name) == << [outputPath |-> DlDir \o name, downloadId |-> "D1"] >>

InitMatch ==
    /\ cwd = RootDir
    /\ settings \in {st \in SettingsSpace : ~st.delay_import /\ st.intermediate_root = <<>>
                                            /\ st.import_root # <<>>}
    /\ fs_files = {}
    /\ fs_dirs = {}
    /\ run \in [notifier      : {"none"},
                is_dir        : BOOLEAN,
                dest_basename : MatchNames,
                output_name   : MatchNames,
                match_index   : {0}]

\* notifier n scans the queue of the one record
ScanFor(n) ==
    /\ run.notifier = "none"
    /\ run' = [run EXCEPT !.notifier = n,
                          !.match_index = ScanQueue(n, OneRecord(run.output_name), run.is_dir,
                                                    run.dest_basename).match_index]
    /\ UNCHANGED <<cwd, settings, fs_files, fs_dirs>>

ScanSonarr == ScanFor("sonarr")
ScanRadarr == ScanFor("radarr")

NextMatch == ScanSonarr \/ ScanRadarr

SpecMatch == InitMatch /\ [][NextMatch]_vars

-----------------------------------------------------------------------------
(* process_files on tasks with several destination files, with the         *)
(* file-size switch and every kind of response to the import-scan          *)

InitFiles ==
    /\ cwd = RootDir
    /\ settings \in FilesSettingsSpace
    /\ fs_files = {FileDest, SmallFile, OutsideFile, InPlaceFile}
    /\ fs_dirs = InitialDirs
    /\ run = NoRun

ProcessSonarr == NotifyOf("sonarr", FilesTasks, ScanResponses)
ProcessRadarr == NotifyOf("radarr", FilesTasks, ScanResponses)

NextFiles == ProcessSonarr \/ ProcessRadarr

SpecFiles == InitFiles /\ [][NextFiles]_vars

-----------------------------------------------------------------------------
(* update_mode(api, dest_path, rename_files) of both notifiers             *)

\* the exceptions of pyarr that update_mode handles, and one it does not
PyarrHandled ==
    {"PyarrUnauthorizedError", "PyarrAccessRestricted", "PyarrResourceNotFound",
     "PyarrBadGateway", "PyarrConnectionError"}
PyarrUnhandled == "PyarrServerError"

\* how a request ends: it returns a value or raises an exception
Returns(value) == [kind |-> "returns", value |-> value]
Raises(error)  == [kind |-> "raises", error |-> error]
NoReply        == [kind |-> "none"]

EmptyDict == <<>>

\* api.get_parsed_title(basename) of notify_sonarr
ParsedTitles ==
    { [title |-> "e"],
      [title |-> "e", series |-> [title |-> "s"]],
      [title |-> "e", series |-> [title |-> "s", id |-> 0]],
      [title |-> "e", series |-> [title |-> "s", id |-> 7]] }

\* api.lookup_movie(basename) of notify_radarr
MovieLookups ==
    { <<>>,
      << [title |-> "a"] >>,
      << [title |-> "a", id |-> 0], [title |-> "b", id |-> 5] >>,
      << [title |-> "a", id |-> 3], [title |-> "b", id |-> 5] >> }

\* replies to the refresh/rescan command
RefreshReplies ==
    {Returns(r) : r \in ScanResponses} \cup {Raises(e) : e \in PyarrHandled \cup {PyarrUnhandled}}

\* replies to api.get_episode_file(series_id, series=True)
EpisodeFileReplies ==
    {Returns(<< [id |-> 1], [id |-> 2] >>), Returns(<<>>), Raises("PyarrConnectionError")}

\* replies to the rename command
RenameReplies ==
    {Returns([type |-> "dict"]), Returns([type |-> "list"]),
     Raises("PyarrBadGateway"), Raises(PyarrUnhandled)}

\* series_id = episode_data.get('series', {}).get('id'); 0 stands for a
\* missing id as well (both are false)
SeriesId(episode_data) == ItemGet(ItemGet(episode_data, "series", EmptyDict), "id", 0)

\* the id of the first lookup result with an id, from result i on
RECURSIVE MovieIdFrom(_, _)
MovieIdFrom(lookup_results, i) ==
    IF i > Len(lookup_results) THEN 0
    ELSE IF ItemGet(lookup_results[i], "id", 0) # 0 THEN lookup_results[i].id
    ELSE MovieIdFrom(lookup_results, i + 1)

MovieId(lookup_results) == MovieIdFrom(lookup_results, 1)

LookupCall(n) ==
    [api |-> IF n = "sonarr" THEN "get_parsed_title" ELSE "lookup_movie", name |-> "", id |-> 0]
EpisodeFileCall(series_id) == [api |-> "get_episode_file", name |-> "", id |-> series_id]
CommandCall(name, id) == [api |-> "post_command", name |-> name, id |-> id]

RefreshName(n) == IF n = "sonarr" THEN "RescanSeries" ELSE "RefreshMovie"
RenameName(n)  == IF n = "sonarr" THEN "RenameFiles" ELSE "RenameMovie"

\* variant: the handlers of the Pyarr exceptions log and do not return
RefreshOutcomeNoReturn(refresh_reply) ==
    IF refresh_reply.kind = "raises"
    THEN IF refresh_reply.error \in PyarrHandled THEN "ok" ELSE "raise"
    ELSE IF refresh_reply.value.type # "dict" THEN "raise"
    ELSE IF TruthyId(ItemGet(refresh_reply.value, "message", None)) THEN "stop" ELSE "ok"

\* the try block around the refresh/rescan command: "ok" goes on, "stop"
\* logs and returns, "raise" lets an exception leave update_mode
\* (result.get of a value that is not a dict raises AttributeError)
RefreshOutcome(refresh_reply) ==
    IF refresh_reply.kind = "raises"
    THEN IF refresh_reply.error \in PyarrHandled THEN "stop" ELSE "raise"
    ELSE IF refresh_reply.value.type # "dict" THEN "raise"
    ELSE IF TruthyId(ItemGet(refresh_reply.value, "message", None)) THEN "stop" ELSE "ok"

\* the outcome of the rename command of notify_sonarr: every exception is
\* caught (except BaseException)
SonarrRenameOutcome(rename_reply) ==
    IF rename_reply.kind = "raises" THEN "rename_failed"
    ELSE IF rename_reply.value.type = "dict" THEN "renamed" ELSE "rename_failed"

\* the outcome of the rename command of notify_radarr
RadarrRenameOutcome(rename_reply) ==
    IF rename_reply.kind = "raises"
    THEN IF rename_reply.error \in PyarrHandled THEN "rename_failed" ELSE "raised"
    ELSE IF rename_reply.value.type = "dict" THEN "renamed" ELSE "rename_failed"

\* notify_sonarr: rename_list = api.get_episode_file(...), then RenameFiles
SonarrRename(u, episode_files, rename_reply) ==
    IF episode_files.kind = "raises"
    THEN [u EXCEPT !.calls = Append(@, EpisodeFileCall(u.id)),
                   !.outcome = "rename_failed"]
    ELSE [u EXCEPT !.calls = @ \o <<EpisodeFileCall(u.id), CommandCall(RenameName(u.notifier), u.id)>>,
                   !.outcome = SonarrRenameOutcome(rename_reply)]

\* notify_radarr: RenameMovie
RadarrRename(u, rename_reply) ==
    [u EXCEPT !.calls = Append(@, CommandCall(RenameName(u.notifier), u.id)),
              !.outcome = RadarrRenameOutcome(rename_reply)]

\* update_mode after the refresh/rescan command
Refreshed(u, refresh_outcome, episode_files, rename_reply) ==
    IF refresh_outcome = "raise" THEN [u EXCEPT !.outcome = "raised"]
    ELSE IF refresh_outcome = "stop" THEN [u EXCEPT !.outcome = "refresh_failed"]
    ELSE IF ~u.rename_files THEN [u EXCEPT !.outcome = "refreshed"]
    ELSE IF u.notifier = "sonarr" THEN SonarrRename(u, episode_files, rename_reply)
    ELSE RadarrRename(u, rename_reply)

\* update_mode of notifier n for dest_path, given the id the lookup yields
\* and how the requests end
UpdateMode(n, dest_path, id, rename_files, refresh_reply, episode_files, rename_reply) ==
    IF id = 0
    THEN [notifier |-> n, dest_path |-> dest_path, id |-> 0, rename_files |-> rename_files,
          calls |-> <<LookupCall(n)>>, refresh |-> NoReply, outcome |-> "missing_id"]
    ELSE Refreshed([notifier |-> n, dest_path |-> dest_path, id |-> id,
                    rename_files |-> rename_files,
                    calls |-> <<LookupCall(n), CommandCall(RefreshName(n), id)>>,
                    refresh |-> refresh_reply, outcome |-> "refreshed"],
                   RefreshOutcome(refresh_reply), episode_files, rename_reply)

\* process_files in update mode: update_mode for every destination file; an
\* exception ends the loop
RECURSIVE UpdateFrom(_, _, _, _, _, _, _, _, _)
UpdateNext(n, destination_files, id, rename_files, refresh_reply, episode_files, rename_reply, i, updates) ==
    IF updates[Len(updates)].outcome = "raised" THEN updates
    ELSE UpdateFrom(n, destination_files, id, rename_files, refresh_reply, episode_files,
                    rename_reply, i, updates)

UpdateFrom(n, destination_files, id, rename_files, refresh_reply, episode_files, rename_reply, i, updates) ==
    IF i > Len(destination_files) THEN updates
    ELSE UpdateNext(n, destination_files, id, rename_files, refresh_reply, episode_files,
                    rename_reply, i + 1,
                    Append(updates, UpdateMode(n, destination_files[i], id, rename_files,
                                               refresh_reply, episode_files, rename_reply)))

UpdateFiles(n, destination_files, id, rename_files, refresh_reply, episode_files, rename_reply) ==
    UpdateFrom(n, destination_files, id, rename_files, refresh_reply, episode_files,
               rename_reply, 1, <<>>)

\* Settings.settings of a notifier in update mode
UpdateSettingsSpace == [mode : {"update_mode"}, rename_files : BOOLEAN]

UpdateTasks == {FileTask, OutsideLastTask}

InitUpdate ==
    /\ cwd = RootDir
    /\ settings \in UpdateSettingsSpace
    /\ fs_files = {FileDest, SmallFile, OutsideFile, InPlaceFile}
    /\ fs_dirs = InitialDirs
    /\ run = [notifier |-> "none", destination_files |-> <<>>, updates |-> <<>>]

\* on_postprocessor_task_results of notifier n in update mode, the lookup
\* yielding id
UpdateOf(n, id) ==
    \E task \in UpdateTasks, refresh_reply \in RefreshReplies,
       episode_files \in EpisodeFileReplies, rename_reply \in RenameReplies :
        /\ run' = [notifier |-> n,
                   destination_files |-> task.destination_files,
                   updates |-> UpdateFiles(n, task.destination_files, id,
                                           settings.rename_files, refresh_reply,
                                           episode_files, rename_reply)]
        /\ UNCHANGED <<cwd, settings, fs_files, fs_dirs>>

UpdateSonarr == \E episode_data \in ParsedTitles : UpdateOf("sonarr", SeriesId(episode_data))
UpdateRadarr == \E lookup_results \in MovieLookups : UpdateOf("radarr", MovieId(lookup_results))

NextUpdate == UpdateSonarr \/ UpdateRadarr

SpecUpdate == InitUpdate /\ [][NextUpdate]_vars

-----------------------------------------------------------------------------
(* rarbg_fix: the file test and the four passes of on_worker_process       *)

UpperLetters == <<"A", "B", "C", "D", "E", "F", "G", "H", "I", "J", "K", "L", "M", "N", "O", "P", "Q", "R", "S", "T", "U", "V", "W", "X", "Y", "Z">>
LowerLetters == <<"a", "b", "c", "d", "e", "f", "g", "h", "i", "j", "k", "l", "m", "n", "o", "p", "q", "r", "s", "t", "u", "v", "w", "x", "y", "z">>

\* str.lower() on one character and on a string
LowerChar(c) ==
    IF \E i \in DOMAIN UpperLetters : UpperLetters[i] = c
    THEN LowerLetters[CHOOSE i \in DOMAIN UpperLetters : UpperLetters[i] = c]
    ELSE c

Lower(s) == [i \in 1..Len(s) |-> LowerChar(s[i])]

\* sep occurs in s at position i
OccursAt(s, sep, i) == i + Len(sep) - 1 <= Len(s) /\ SubSeq(s, i, i + Len(sep) - 1) = sep

\* the position of the last occurrence of sep in s, 0 when there is none
LastIndex(s, sep) ==
    IF \E i \in 1..Len(s) : OccursAt(s, sep, i)
    THEN CHOOSE i \in 1..Len(s) :
            OccursAt(s, sep, i) /\ \A j \in (i + 1)..Len(s) : ~OccursAt(s, sep, j)
    ELSE 0

\* s.rpartition(sep)[0]: what precedes the last sep, '' when there is none
RPartitionHead(s, sep) ==
    IF LastIndex(s, sep) = 0 THEN <<>> ELSE SubSeq(s, 1, LastIndex(s, sep) - 1)

Dot          == <<".">>
WorkingMark  == <<"-", "W", "O", "R", "K", "I", "N", "G", "-">>
Mp4Name      == <<"m", "p", "4">>
RarbgName    == <<"r", "a", "r", "b", "g">>
VideoType    == <<"v", "i", "d", "e", "o">>
AudioType    == <<"a", "u", "d", "i", "o">>
HevcCodec    == <<"h", "e", "v", "c">>
H265Codec    == <<"h", "2", "6", "5">>
VideoSuffix       == <<".", "r", "a", "r", "b", "g", "_", "v", "i", "d", "e", "o", ".", "m", "k", "v">>
AudioSuffix       == <<".", "r", "a", "r", "b", "g", "_", "a", "u", "d", "i", "o", ".", "m", "k", "v">>
VideoFixedSuffix  == <<".", "r", "a", "r", "b", "g", "_", "v", "i", "d", "e", "o", "_", "f", "i", "x", "e", "d", ".", "m", "k", "v">>
AudioFixedSuffix  == <<".", "r", "a", "r", "b", "g", "_", "a", "u", "d", "i", "o", "_", "f", "i", "x", "e", "d", ".", "m", "k", "v">>
FixedSuffix       == <<".", "r", "a", "r", "b", "g", "_", "f", "i", "x", "e", "d", ".", "m", "p", "4">>

\* what ffprobe reports of a file: the format with its name and tags, and
\* the streams
ProbeFormats ==
    { [format_name |-> <<"m", "o", "v", ",", "m", "p", "4">>, tags |-> [title |-> <<"B", "y", " ", "R", "A", "R", "B", "G">>]],
      [format_name |-> <<"m", "o", "v", ",", "m", "p", "4">>, tags |-> [title |-> <<"x", ".", "r", "a", "r", "b", "g">>]],
      [format_name |-> <<"m", "o", "v", ",", "m", "p", "4">>, tags |-> [title |-> <<"r", "a", "r", "b">>]],
      [format_name |-> <<"m", "o", "v", ",", "m", "p", "4">>],
      [format_name |-> <<"m", "a", "t", "r", "o", "s", "k", "a">>, tags |-> [title |-> <<"x", ".", "r", "a", "r", "b", "g">>]],
      [tags |-> [title |-> <<"x", ".", "r", "a", "r", "b", "g">>]] }

ProbeStreams ==
    { << [codec_type |-> VideoType, codec_name |-> HevcCodec] >>,
      << [codec_type |-> AudioType, codec_name |-> <<"a", "a", "c">>],
         [codec_type |-> <<"V", "i", "d", "e", "o">>, codec_name |-> <<"H", "2", "6", "5">>] >>,
      << [codec_type |-> VideoType, codec_name |-> <<"h", "2", "6", "4">>],
         [codec_type |-> AudioType, codec_name |-> <<"a", "a", "c">>] >>,
      << [codec_type |-> AudioType, codec_name |-> HevcCodec] >>,
      << [codec_name |-> HevcCodec] >>,
      << >> }

Probes == [format : ProbeFormats, streams : ProbeStreams]

\* probe.get('format', {}).get('format_name', [ ])
FormatName(probe) == ItemGet(ItemGet(probe, "format", EmptyDict), "format_name", <<>>)

\* probe.get('format', {}).get('tags', {}).get('title', '')
TitleTag(probe) ==
    ItemGet(ItemGet(ItemGet(probe, "format", EmptyDict), "tags", EmptyDict), "title", <<>>)

\* variant: only the codec name hevc is looked for
TestStreamOnlyHevc(stream_info) ==
    /\ Lower(ItemGet(stream_info, "codec_type", <<>>)) \in {VideoType}
    /\ Lower(ItemGet(stream_info, "codec_name", <<>>)) \in {HevcCodec}

\* PluginStreamMapper.test_stream_needs_processing(stream_info)
TestStreamNeedsProcessing(stream_info) ==
    /\ Lower(ItemGet(stream_info, "codec_type", <<>>)) \in {VideoType}
    /\ Lower(ItemGet(stream_info, "codec_name", <<>>)) \in {HevcCodec, H265Codec}

\* mapper.streams_need_processing() of the stream mapper for ['video']: some
\* stream of a processed type needs processing
StreamsNeedProcessing(probe) ==
    \E k \in DOMAIN probe.streams :
        /\ Lower(ItemGet(probe.streams[k], "codec_type", <<>>)) = VideoType
        /\ TestStreamNeedsProcessing(probe.streams[k])

\* data[key] = value
SetItem(data, key, value) ==
    [k \in DOMAIN data \cup {key} |-> IF k = key THEN value ELSE data[k]]

\* on_library_management_file_test(data), given whether the probe of the
\* file succeeds and what it reports
FileTest(data, probe_ok, probe) ==
    IF ~probe_ok THEN data
    ELSE IF ~Contains(FormatName(probe), Mp4Name) THEN data
    ELSE IF ~Contains(Lower(TitleTag(probe)), RarbgName) THEN data
    ELSE IF StreamsNeedProcessing(probe)
    THEN SetItem(data, "add_file_to_pending_tasks", TRUE)
    ELSE data

\* an exec_command: the program, its option words, the files it reads and
\* the files it writes, in the order of the argument list
NoCommand == [program |-> "", options |-> <<>>, inputs |-> <<>>, outputs |-> <<>>]

\* pass 1: Split
SplitPass(data, abspath, basename) ==
    [SetItem(data, "pass_num", 2) EXCEPT
        !.repeat = TRUE,
        !.file_out = basename \o VideoSuffix,
        !.exec_command =
            [program |-> "ffmpeg",
             options |-> <<"-y", "-map 0:v", "-map 0:s?", "-c:v copy", "-map 0:a", "-c:a copy">>,
             inputs  |-> <<abspath>>,
             outputs |-> <<basename \o VideoSuffix, basename \o AudioSuffix>>]]

\* variant: pass 2 hands over to pass 4
VideoPassSkipping(data, basename) ==
    [data EXCEPT
        !.repeat = TRUE,
        !.pass_num = 4,
        !.file_in = basename \o VideoSuffix,
        !.file_out = basename \o VideoFixedSuffix,
        !.exec_command =
            [program |-> "mkvmerge",
             options |-> <<"-A", "-S">>,
             inputs  |-> <<basename \o VideoSuffix>>,
             outputs |-> <<basename \o VideoFixedSuffix>>],
        !.command_progress_parser = "mkvtoolnix.Parser"]

\* pass 2: Reprocess video with mkvmerge
VideoPass(data, basename) ==
    [data EXCEPT
        !.repeat = TRUE,
        !.pass_num = 3,
        !.file_in = basename \o VideoSuffix,
        !.file_out = basename \o VideoFixedSuffix,
        !.exec_command =
            [program |-> "mkvmerge",
             options |-> <<"-A", "-S">>,
             inputs  |-> <<basename \o VideoSuffix>>,
             outputs |-> <<basename \o VideoFixedSuffix>>],
        !.command_progress_parser = "mkvtoolnix.Parser"]

\* pass 3: Reprocess audio with mkvmerge
AudioPass(data, basename) ==
    [data EXCEPT
        !.repeat = TRUE,
        !.pass_num = 4,
        !.file_in = basename \o AudioSuffix,
        !.file_out = basename \o AudioFixedSuffix,
        !.exec_command =
            [program |-> "mkvmerge",
             options |-> <<"-D">>,
             inputs  |-> <<basename \o AudioSuffix>>,
             outputs |-> <<basename \o AudioFixedSuffix>>],
        !.command_progress_parser = "mkvtoolnix.Parser"]

\* pass 4: Recombine
RecombinePass(data, basename) ==
    [data EXCEPT
        !.repeat = FALSE,
        !.file_out = basename \o FixedSuffix,
        !.exec_command =
            [program |-> "ffmpeg",
             options |-> <<"-y", "-c copy", "-map 0", "-map 1">>,
             inputs  |-> <<basename \o VideoFixedSuffix, basename \o AudioFixedSuffix>>,
             outputs |-> <<basename \o FixedSuffix>>]]

\* variant: pass 1 without the test on the title
FirstPassAnyTitle(data, probe, abspath, basename) ==
    IF ~Contains(FormatName(probe), Mp4Name) THEN data
    ELSE IF ~StreamsNeedProcessing(probe) THEN data
    ELSE [SplitPass(data, abspath, basename) EXCEPT !.command_progress_parser = "ffmpeg.Parser"]

\* pass 1 after the probe: the tests on format, streams and title
FirstPass(data, probe, abspath, basename) ==
    IF ~Contains(FormatName(probe), Mp4Name) THEN data
    ELSE IF ~StreamsNeedProcessing(probe) THEN data
    ELSE IF ~Contains(Lower(TitleTag(probe)), RarbgName) THEN data
    ELSE [SplitPass(data, abspath, basename) EXCEPT !.command_progress_parser = "ffmpeg.Parser"]

\* the branches on pass_num and the parser set at the end
Passes(data, probe, abspath, basename, pass_num) ==
    IF pass_num = 1 THEN FirstPass(data, probe, abspath, basename)
    ELSE IF pass_num = 2 THEN VideoPass(data, basename)
    ELSE IF pass_num = 3 THEN AudioPass(data, basename)
    ELSE IF pass_num = 4
    THEN [RecombinePass(data, basename) EXCEPT !.command_progress_parser = "ffmpeg.Parser"]
    ELSE [data EXCEPT !.command_progress_parser = "ffmpeg.Parser"]

\* basename = data['file_out'].rpartition('.')[0].rpartition('-WORKING-')[0]
WorkBasename(data) == RPartitionHead(RPartitionHead(data.file_out, Dot), WorkingMark)

\* on_worker_process(data), given whether the probe of file_in succeeds and
\* what it reports
OnWorkerProcess(data, probe_ok, probe) ==
    IF ~probe_ok THEN data
    ELSE Passes(data, probe, data.file_in, WorkBasename(data), ItemGet(data, "pass_num", 1))

\* the host: the cache file of the task and the file_out it names for
\* invocation k
CacheFile == <<"/", "c", "/", "v", ".", "m", "p", "4">>
PassDigits == <<"1", "2", "3", "4", "5", "6", "7", "8", "9">>
HostFileOut(k) == <<"/", "c", "/", "v">> \o WorkingMark \o <<PassDigits[k]>> \o <<".", "m", "p", "4">>

\* the data of the first invocation: no pass_num
FirstData ==
    [file_in |-> CacheFile, file_out |-> HostFileOut(1), original_file_path |-> CacheFile,
     repeat |-> FALSE, exec_command |-> NoCommand, command_progress_parser |-> "default"]

\* the data of invocation k after an invocation returned data: a host of
\* kind "resets" sets the keys of its contract anew and leaves the others, a
\* host of kind "keeps" hands the returned object back as it is
HostData(host, data, k) ==
    IF host = "keeps" THEN data
    ELSE [data EXCEPT !.file_in = IF data.exec_command = NoCommand THEN @ ELSE data.file_out,
                      !.file_out = HostFileOut(k),
                      !.repeat = FALSE,
                      !.exec_command = NoCommand,
                      !.command_progress_parser = "default"]

Hosts == {"resets", "keeps"}

\* the most invocations a host makes for one task
MaxInvocations == 6

\* data of the file test
TestData == [path : {CacheFile}, issues : {<<>>}, add_file_to_pending_tasks : BOOLEAN]

InitRarbg ==
    /\ cwd = RootDir
    /\ settings = [library_id |-> 1]
    /\ fs_files = {CacheFile}
    /\ fs_dirs = {RootDir}
    /\ run \in [host        : Hosts,
                probe       : Probes,
                received    : TestData,
                tested      : {FALSE},
                test_ok     : {FALSE},
                test_data   : {NoCommand},
                data        : {FirstData},
                invocations : {0},
                probes_ok   : {TRUE},
                returned    : {<<>>}]

\* the library scan calls on_library_management_file_test for the file
LibraryFileTest ==
    /\ ~run.tested
    /\ \E probe_ok \in BOOLEAN :
          run' = [run EXCEPT !.tested = TRUE,
                             !.test_ok = probe_ok,
                             !.test_data = FileTest(run.received, probe_ok, run.probe)]
    /\ UNCHANGED <<cwd, settings, fs_files, fs_dirs>>

\* what an invocation of on_worker_process leaves in the state
Invocation(k, given, result, probe_ok) ==
    [run EXCEPT !.data = result,
                !.invocations = k,
                !.probes_ok = run.probes_ok /\ probe_ok,
                !.returned = Append(@, [given |-> given, result |-> result, probe_ok |-> probe_ok])]

\* the host invokes on_worker_process: first with the data of the task, then
\* again while the returned data has repeat set
WorkerProcess ==
    /\ run.invocations < MaxInvocations
    /\ run.invocations = 0 \/ run.data.repeat
    /\ \E probe_ok \in BOOLEAN :
        \E given \in {IF run.invocations = 0 THEN run.data
                      ELSE HostData(run.host, run.data, run.invocations + 1)} :
            run' = Invocation(run.invocations + 1, given,
                              OnWorkerProcess(given, probe_ok, run.probe), probe_ok)
    /\ UNCHANGED <<cwd, settings, fs_files, fs_dirs>>

NextRarbg == LibraryFileTest \/ WorkerProcess

SpecRarbg == InitRarbg /\ [][NextRarbg]_vars

-----------------------------------------------------------------------------
(***************************************************************************)
(* The host's loop around on_worker_process without a bound on the number  *)
(* of invocations: the state keeps the data handed on, the number of       *)
(* invocations up to LoopCount and, from there on, whether it is odd.      *)
(***************************************************************************)

\* the count of invocations kept in the state
LoopCount == 4

InitLoop ==
    /\ cwd = RootDir
    /\ settings = [library_id |-> 1]
    /\ fs_files = {CacheFile}
    /\ fs_dirs = {RootDir}
    /\ run \in [host        : Hosts,
                probe       : Probes,
                data        : {FirstData},
                invocations : {0},
                odd         : {FALSE},
                probe_ok    : {TRUE}]

\* the count after one more invocation
Counted1(k) == IF k < LoopCount THEN k + 1 ELSE LoopCount

\* the host invokes on_worker_process: first with the data of the task, then
\* again, for as long as the returned data has repeat set
WorkerLoop ==
    /\ run.invocations = 0 \/ run.data.repeat
    /\ \E probe_ok \in BOOLEAN :
        \E given \in {IF run.invocations = 0 THEN run.data
                      ELSE HostData(run.host, run.data, Counted1(run.invocations))} :
            run' = [run EXCEPT !.data = OnWorkerProcess(given, probe_ok, run.probe),
                               !.invocations = Counted1(@),
                               !.odd = ~@,
                               !.probe_ok = probe_ok]
    /\ UNCHANGED <<cwd, settings, fs_files, fs_dirs>>

NextLoop == WorkerLoop

\* the host does not stop calling while repeat is set
SpecLoop == InitLoop /\ [][NextLoop]_vars /\ WF_vars(WorkerLoop)

-----------------------------------------------------------------------------
(***************************************************************************)
(* rarbg_fix.lib.mkvtoolnix: Parser.parse_progress on the lines of output  *)
(* of mkvmerge                                                             *)
(***************************************************************************)

\* the position of the first occurrence of sep in s, 0 when there is none
FirstIndex(s, sep) ==
    IF Contains(s, sep)
    THEN CHOOSE i \in 1..Len(s) : OccursAt(s, sep, i) /\ \A j \in 1..(i - 1) : ~OccursAt(s, sep, j)
    ELSE 0

\* s.split(sep)[0]
SplitHead(s, sep) == IF FirstIndex(s, sep) = 0 THEN s ELSE SubSeq(s, 1, FirstIndex(s, sep) - 1)

\* s.split(sep)[1] for s that contains sep: from the end of the first sep to
\* the next one
SplitSecond(s, sep) == SplitHead(SubSeq(s, FirstIndex(s, sep) + Len(sep), Len(s)), sep)

\* s.strip() of blanks
RECURSIVE StripBlanks(_)
StripBlanks(s) ==
    IF s = <<>> THEN s
    ELSE IF Head(s) = " " THEN StripBlanks(Tail(s))
    ELSE IF s[Len(s)] = " " THEN StripBlanks(SubSeq(s, 1, Len(s) - 1))
    ELSE s

DecimalDigits == <<"0", "1", "2", "3", "4", "5", "6", "7", "8", "9">>
IsDigit(c) == \E i \in DOMAIN DecimalDigits : DecimalDigits[i] = c
DigitValue(c) == (CHOOSE i \in DOMAIN DecimalDigits : DecimalDigits[i] = c) - 1

\* the literal without its sign
Unsigned(s) == IF s # <<>> /\ Head(s) \in {"-", "+"} THEN Tail(s) ELSE s

AllDigits(u) == u # <<>> /\ \A i \in DOMAIN u : IsDigit(u[i])

\* int(s) does not raise ValueError: blanks around an optional sign and
\* decimal digits
IsIntLiteral(s) == AllDigits(Unsigned(StripBlanks(s)))

RECURSIVE DigitsValue(_)
DigitsValue(u) ==
    IF u = <<>> THEN 0
    ELSE 10 * DigitsValue(SubSeq(u, 1, Len(u) - 1)) + DigitValue(u[Len(u)])

SignedValue(t) == IF Head(t) = "-" THEN 0 - DigitsValue(Tail(t)) ELSE DigitsValue(Unsigned(t))

\* int(s) of an integer literal
PyInt(s) == SignedValue(StripBlanks(s))

ProgressMark == <<"P", "r", "o", "g", "r", "e", "s", "s", ":", " ">>
PercentSign == <<"%">>

\* self.percent of a new parser, set by the constructor of ffmpeg.Parser
InitialPercent == <<"0">>

\* variant: every number read replaces percent
ParsedPercentLatest(percent, text) ==
    IF text = <<>> THEN [percent |-> percent, raised |-> FALSE]
    ELSE IF ~IsIntLiteral(text) \/ ~IsIntLiteral(percent)
    THEN [percent |-> percent, raised |-> TRUE]
    ELSE [percent |-> text, raised |-> FALSE]

\* if _percent and int(_percent) > int(self.percent): self.percent = str(_percent)
\* (int raises ValueError on a text that is no integer literal)
ParsedPercent(percent, text) ==
    IF text = <<>> THEN [percent |-> percent, raised |-> FALSE]
    ELSE IF ~IsIntLiteral(text) \/ ~IsIntLiteral(percent)
    THEN [percent |-> percent, raised |-> TRUE]
    ELSE IF PyInt(text) > PyInt(percent)
    THEN [percent |-> text, raised |-> FALSE]
    ELSE [percent |-> percent, raised |-> FALSE]

\* Parser.parse_progress(line_text): self.percent afterwards and whether the
\* call raised
ParseProgress(percent, line_text) ==
    IF line_text # <<>> /\ Contains(line_text, ProgressMark)
    THEN ParsedPercent(percent, SplitHead(SplitSecond(line_text, ProgressMark), PercentSign))
    ELSE [percent |-> percent, raised |-> FALSE]

\* the lines of output: what precedes the number, the text of the number
\* with the number it denotes, and what follows it
LinePrefixes == {<<>>, <<"#", "G", "U", "I", "#">>, <<"P", "r", "o", "g", "r", "e", "s", "s", ":">>}
NumberTexts ==
    { [text |-> <<"5">>, numeric |-> TRUE, value |-> 5],
      [text |-> <<"0", "7">>, numeric |-> TRUE, value |-> 7],
      [text |-> <<"5", "0">>, numeric |-> TRUE, value |-> 50],
      [text |-> <<"1", "0", "0">>, numeric |-> TRUE, value |-> 100],
      [text |-> <<"2", "0", " ">>, numeric |-> TRUE, value |-> 20],
      [text |-> <<"-", "1">>, numeric |-> TRUE, value |-> 0 - 1],
      [text |-> <<"4", ".", "5">>, numeric |-> FALSE, value |-> 0],
      [text |-> <<>>, numeric |-> FALSE, value |-> 0] }
LineSuffixes == {<<>>, PercentSign, <<"%", " ", "3", "%">>}
LineShapes == [prefix : LinePrefixes, marker : BOOLEAN, number : NumberTexts, suffix : LineSuffixes]

LineText(shape) ==
    shape.prefix \o (IF shape.marker THEN ProgressMark ELSE <<>>) \o shape.number.text \o shape.suffix

\* the most lines fed to one parser
MaxLines == 3

NoLine == [prefix |-> <<>>, marker |-> FALSE, number |-> [text |-> <<>>, numeric |-> FALSE, value |-> 0], suffix |-> <<>>]

InitParser ==
    /\ cwd = RootDir
    /\ settings = [library_id |-> 1]
    /\ fs_files = {}
    /\ fs_dirs = {RootDir}
    /\ run = [percent |-> InitialPercent, fed |-> 0, shape |-> NoLine,
              before |-> InitialPercent, raised |-> FALSE]

\* the host hands a line of the command's output to parse_progress
ParseLine ==
    /\ run.fed < MaxLines
    /\ \E shape \in LineShapes :
        \E r \in {ParseProgress(run.percent, LineText(shape))} :
            run' = [percent |-> r.percent, fed |-> run.fed + 1, shape |-> shape,
                    before |-> run.percent, raised |-> r.raised]
    /\ UNCHANGED <<cwd, settings, fs_files, fs_dirs>>

NextParser == ParseLine

SpecParser == InitParser /\ [][NextParser]_vars

-----------------------------------------------------------------------------
(***************************************************************************)
(* Two invocations of import_mode, for two files of one directory          *)
(* delivery, taking their steps in any order: the counts, the test of      *)
(* os.path.exists(newname), the rename, the un-hiding and the requests to   *)
(* the remote API are one step each.                                       *)
(***************************************************************************)

\* the two media files of the staged directory
RaceIds == {1, 3}

RaceSettings ==
    {st \in SettingsSpace :
        st.delay_import /\ st.intermediate_root = IntermediateDir /\ st.import_root = ImportDir}

NotStarted == [outcome |-> "none"]

InitRace ==
    /\ cwd = RootDir
    /\ settings \in RaceSettings
    /\ fs_files = {StagedSource(i) : i \in RaceIds} \cup {StagedDotFile}
    /\ fs_dirs = InitialDirs
    /\ run \in [notifier      : [RaceIds -> Notifiers],
                pc            : {[i \in RaceIds |-> "start"]},
                inv           : {[i \in RaceIds |-> NotStarted]},
                rename_failed : {[i \in RaceIds |-> FALSE]}]

\* the mover delivers one of the two files
RaceDeliver == \E i \in RaceIds : Deliver(i)

\* process_files calls import_mode for the delivered file i
Entered(n, st, files, wd, i) ==
    Begin(n, files, StagedSource(i), StagedDest(i), EffectiveIntermediateRoot(st),
          st.import_root, st.sources_removed,
          Reconstruct(n, wd, StagedSource(i), StagedDest(i),
                      EffectiveIntermediateRoot(st), st.import_root))

\* is_dir = os.path.isdir(abspath_source)
WithIsDir(inv, dirs) == [inv EXCEPT !.is_dir = IsDir(dirs, inv.real_source)]

\* where import_mode goes after the validation of the paths
AfterEnter(inv) ==
    IF ~inv.valid THEN "done"
    ELSE IF inv.is_dir /\ inv.intermediate_root # inv.import_root THEN "count"
    ELSE "api"

\* the invocation sees the file system as it is now
Seeing(inv, files) == [inv EXCEPT !.files_before = files, !.files_after = files]

Enter(i) ==
    /\ run.pc[i] = "start"
    /\ Delivered(fs_files, StagedDest(i))
    /\ \E inv \in {WithIsDir(Entered(run.notifier[i], settings, fs_files, cwd, i), fs_dirs)} :
          run' = [run EXCEPT !.inv[i] = inv, !.pc[i] = AfterEnter(inv)]
    /\ UNCHANGED <<cwd, settings, fs_files, fs_dirs>>

\* sourcefile_count, destfile_count and files_remaining
CountStep(i) ==
    /\ run.pc[i] = "count"
    /\ \E inv \in {Decide(Count(Seeing(run.inv[i], fs_files), fs_dirs))} :
          run' = [run EXCEPT !.inv[i] = inv,
                             !.pc[i] = IF inv.delay THEN "check" ELSE "unhide"]
    /\ UNCHANGED <<cwd, settings, fs_files, fs_dirs>>

\* if not os.path.exists(newname)
CheckStep(i) ==
    /\ run.pc[i] = "check"
    /\ run' = IF PathExists(fs_files, fs_dirs, run.inv[i].real_newname)
              THEN [run EXCEPT !.inv[i].outcome = "hidden", !.pc[i] = "done"]
              ELSE [run EXCEPT !.pc[i] = "rename"]
    /\ UNCHANGED <<cwd, settings, fs_files, fs_dirs>>

\* os.rename(dest_path, newname); return
RenameStep(i) ==
    /\ run.pc[i] = "rename"
    /\ \E inv \in {HideRename(Seeing(run.inv[i], fs_files))} :
          /\ fs_files' = inv.files_after
          /\ run' = [run EXCEPT !.inv[i] = inv, !.pc[i] = "done",
                                !.rename_failed[i] = (inv.outcome = "raised")]
    /\ UNCHANGED <<cwd, settings, fs_dirs>>

\* unhide all hidden files
UnhideStep(i) ==
    /\ run.pc[i] = "unhide"
    /\ \E inv \in {Unhide(Seeing(run.inv[i], fs_files), fs_dirs)} :
          /\ fs_files' = inv.files_after
          /\ run' = [run EXCEPT !.inv[i] = inv, !.pc[i] = "api"]
    /\ UNCHANGED <<cwd, settings, fs_dirs>>

\* os.chmod, api.get_queue(), the scan of the records and the import-scan
ApiStep(i) ==
    /\ run.pc[i] = "api"
    /\ \E queue \in Queues, scan_result \in ScanResults :
        \E inv \in {IF run.inv[i].counted
                    THEN Chmod(Seeing(run.inv[i], fs_files), fs_dirs, queue, scan_result)
                    ELSE Match(Seeing(run.inv[i], fs_files), queue, scan_result)} :
            run' = [run EXCEPT !.inv[i] = inv, !.pc[i] = "done"]
    /\ UNCHANGED <<cwd, settings, fs_files, fs_dirs>>

RaceEnter  == \E i \in RaceIds : Enter(i)
RaceCount  == \E i \in RaceIds : CountStep(i)
RaceCheck  == \E i \in RaceIds : CheckStep(i)
RaceRename == \E i \in RaceIds : RenameStep(i)
RaceUnhide == \E i \in RaceIds : UnhideStep(i)
RaceApi    == \E i \in RaceIds : ApiStep(i)

NextRace ==
    \/ RaceDeliver
    \/ RaceEnter
    \/ RaceCount
    \/ RaceCheck
    \/ RaceRename
    \/ RaceUnhide
    \/ RaceApi

SpecRace == InitRace /\ [][NextRace]_vars

-----------------------------------------------------------------------------
(* Properties                                                              *)

\* the invocations of import_mode made by the last call of process_files
LastInvs == {run.invs[k] : k \in DOMAIN run.invs}

\* a directory delivery with intermediate_root != import_root that passed the
\* path validation
DelayCase(inv) ==
    inv.valid /\ inv.is_dir /\ inv.intermediate_root # inv.import_root

\* remaining = srcCount if sources_removed, srcCount - dstCount otherwise
Remaining(inv) ==
    IF inv.sources_removed THEN inv.sourcefile_count
    ELSE inv.sourcefile_count - inv.destfile_count

\* the '*.tmp' files under directory base
TmpUnder(files, base) == {p \in files : StartsWith(p, DirPrefix(base)) /\ IsTmp(p)}

\* C1: in both notifiers, an invocation of import_mode for a directory
\* delivery with intermediate_root != import_root and remaining > 0 makes no
\* request to the remote API (get_queue, del_queue_bulk, post_command) before
\* it returns.
C1_NoRequestWhileRemaining ==
    \A inv \in LastInvs :
        (DelayCase(inv) /\ Remaining(inv) > 0) => inv.calls = <<>>

C1_Witness ==
    \E inv \in LastInvs :
        /\ DelayCase(inv) /\ Remaining(inv) > 0
        /\ inv.notifier = "radarr" /\ inv.sources_removed
        /\ inv.outcome = "hidden"

\* C2: while remaining > 0 hiding is idempotent: an invocation that finds no
\* dest_path + '.tmp' renames dest_path to it; an invocation that finds it
\* (a repeat, by either notifier) renames nothing, raises no error and leaves
\* the file system as it was; either way the sentinel is there afterwards and
\* dest_path is not.
C2_HidingIdempotent ==
    \A inv \in LastInvs :
        (DelayCase(inv) /\ Remaining(inv) > 0) =>
            /\ inv.outcome = "hidden"
            /\ IF inv.real_newname \in inv.files_before
               THEN inv.files_after = inv.files_before
               ELSE inv.files_after =
                        (inv.files_before \ {inv.real_dest_path}) \cup {inv.real_newname}
            /\ inv.real_newname \in inv.files_after
            /\ inv.real_dest_path \notin inv.files_after

\* a repeated invocation: the sentinel was there before it started
C2_Witness ==
    \E inv \in LastInvs :
        /\ DelayCase(inv) /\ Remaining(inv) > 0
        /\ inv.real_newname \in inv.files_before
        /\ inv.outcome = "hidden"

\* C3: for a directory delivery with intermediate_root != import_root and
\* remaining <= 0, when the invocation makes its first request (get_queue) no
\* '*.tmp' file is left under import_root/dest_basename, and every '*.tmp'
\* file that was there is there under its un-suffixed name.
C3_UnhiddenBeforeQueue ==
    \A inv \in LastInvs :
        (DelayCase(inv) /\ Remaining(inv) <= 0 /\ inv.calls # <<>>) =>
            /\ inv.calls[1] = GetQueueCall
            /\ TmpUnder(inv.files_at_queue, inv.real_dest) = {}
            /\ \A p \in TmpUnder(inv.files_before, inv.real_dest) :
                  SplitextRoot(p) \in inv.files_at_queue

C3_Witness ==
    \E inv \in LastInvs :
        /\ DelayCase(inv) /\ Remaining(inv) <= 0 /\ inv.calls # <<>>
        /\ TmpUnder(inv.files_before, inv.real_dest) # {}

\* C4: import_mode rejects, before any file-system or API action, every pair
\* source_path / dest_path for which the reconstructed
\* intermediate_root/source_basename is not a prefix of source_path or the
\* reconstructed import_root/dest_basename is not a prefix of dest_path.
C4_RejectsNonPrefix ==
    \A inv \in LastInvs :
        ~PathsValidPrefix(inv.source_path, inv.dest_path, inv.abspath_source,
                          inv.abspath_dest)
        => (inv.outcome = "rejected" /\ inv.calls = <<>>
            /\ inv.files_after = inv.files_before)

\* the first record of the queue of inv that the match rule accepts was
\* accepted for its stem only: the extensions differ
StemOnlyMatch(inv) ==
    /\ inv.calls # <<>>
    /\ ~inv.is_dir
    /\ inv.match_index > 0
    /\ Basename(inv.queue[inv.match_index].outputPath) # inv.dest_basename

\* C5: for a file delivery whose first matching queue record has the same
\* extension-stripped basename but another extension, the invocation makes a
\* queue-removal request (del_queue_bulk) and then an import-scan request
\* (post_command), in both notifiers.
C5_RemovalThenImport ==
    \A inv \in LastInvs :
        StemOnlyMatch(inv) =>
            \E i, j \in DOMAIN inv.calls :
                /\ i < j
                /\ inv.calls[i].api = "del_queue_bulk"
                /\ inv.calls[j].api = "post_command"

\* C6: for a directory delivery no queue-removal request is made and the
\* removal statement is never reached, whatever the queue holds.
C6_NoRemovalForDirectory ==
    \A inv \in LastInvs :
        inv.is_dir =>
            /\ ~inv.removal_reached
            /\ \A k \in DOMAIN inv.calls : inv.calls[k].api # "del_queue_bulk"

C6_Witness ==
    \E inv \in LastInvs :
        /\ inv.is_dir
        /\ inv.notifier = "radarr"
        /\ inv.match_index > 0
        /\ inv.outcome = "imported"

\* the staged files delivered so far, hidden or not
StagedDelivered(files) == {i \in StagedIds : Delivered(files, StagedDest(i))}

\* inv is the invocation that follows the delivery of a staged file, the
\* notifier having run after each delivery before: delayed import is set up
\* with both roots, dest_path is there as delivered, and the files delivered
\* before it are hidden
OneAtATime(inv) ==
    /\ settings.delay_import
    /\ settings.intermediate_root = IntermediateDir
    /\ settings.import_root = ImportDir
    /\ \E i \in StagedIds : inv.dest_path = StagedDest(i)
    /\ inv.dest_path \in inv.files_before
    /\ \A i \in StagedDelivered(inv.files_before) :
          StagedDest(i) # inv.dest_path => StagedDest(i) \notin inv.files_before

\* C7: with delayed import on and the NumStaged files of a directory
\* delivered one at a time, the notifier run after each delivery, an
\* invocation that finds fewer than NumStaged files delivered makes no
\* request, and the one that finds them all gets to the queue; with sources
\* kept and with sources removed.
C7_WithheldUntilLast ==
    \A inv \in LastInvs :
        OneAtATime(inv) =>
            IF Cardinality(StagedDelivered(inv.files_before)) < NumStaged
            THEN inv.calls = <<>>
            ELSE inv.calls # <<>> /\ inv.calls[1] = GetQueueCall

\* C8: each notifier delays exactly when remaining > 0, remaining being
\* srcCount if sources_removed and srcCount - dstCount otherwise; so Radarr's
\* condition and Sonarr's agree on all non-negative counts and both values of
\* sources_removed.
C8_DelayIffRemaining ==
    run.notifier \in Notifiers =>
        /\ run.delay = (Remaining(run) > 0)
        /\ SonarrDelays(run.sourcefile_count, run.destfile_count, run.sources_removed)
           = RadarrDelays(run.sourcefile_count, run.destfile_count, run.sources_removed)

\* sources removed, none left, some delivered: Radarr proceeds
C8_Witness ==
    /\ run.notifier = "radarr"
    /\ run.sources_removed
    /\ run.sourcefile_count = 0
    /\ run.destfile_count > 0
    /\ ~run.delay

\* C9: process_files hands import_mode an intermediate_root equal to
\* import_root whenever delay_import is off or the intermediate_root setting
\* is empty; with delay_import off no invocation counts files, renames a file
\* or returns before get_queue, unless the path validation rejects it.
C9_NoDelayWhenDisabled ==
    /\ (~settings.delay_import \/ settings.intermediate_root = <<>>) =>
          \A inv \in LastInvs :
              /\ inv.intermediate_root = inv.import_root
              /\ inv.import_root = settings.import_root
    /\ ~settings.delay_import =>
          \A inv \in LastInvs :
              /\ ~inv.counted
              /\ inv.files_after = inv.files_before
              /\ inv.valid => (inv.calls # <<>> /\ inv.calls[1] = GetQueueCall)

\* delay_import off with an intermediate_root set, and a directory delivery
C9_Witness ==
    /\ ~settings.delay_import
    /\ settings.intermediate_root # <<>>
    /\ \E inv \in LastInvs : inv.is_dir /\ inv.calls # <<>>

\* the records of the queue of inv that have an outputPath and satisfy the
\* match rule
Matching(inv) ==
    {i \in DOMAIN inv.queue :
        /\ ItemGet(inv.queue[i], "outputPath", <<>>) # <<>>
        /\ ItemMatches(inv.is_dir, inv.dest_basename, Basename(inv.queue[i].outputPath))}

\* C10: the scan of the queue skips the records without an outputPath and
\* stops at the first record that satisfies the match rule: the record used
\* is the earliest matching one, the download id passed to the import is its
\* downloadId or none, and with no matching record there is none.
C10_FirstMatchWins ==
    \A inv \in LastInvs :
        inv.calls # <<>> =>
            IF Matching(inv) = {}
            THEN inv.match_index = 0 /\ inv.download_id = None
            ELSE /\ inv.match_index \in Matching(inv)
                 /\ \A i \in Matching(inv) : inv.match_index <= i
                 /\ inv.download_id \in
                        {None, ItemGet(inv.queue[inv.match_index], "downloadId", None)}
                 /\ inv.notifier = "sonarr" =>
                        inv.download_id = ItemGet(inv.queue[inv.match_index], "downloadId", None)
                 /\ \A k \in DOMAIN inv.calls :
                        inv.calls[k].downloadClientId \in
                            {None, ItemGet(inv.queue[inv.match_index], "downloadId", None)}

\* two records match, and a record without outputPath comes before them
C10_Witness ==
    \E inv \in LastInvs :
        /\ inv.calls # <<>>
        /\ Cardinality(Matching(inv)) >= 2
        /\ inv.match_index > 1
        /\ inv.outcome = "imported"

\* name has its last extension at position k: a dot with no dot after it and
\* some character other than a dot before it
LastExtensionAt(name, k) ==
    /\ name[k] = "."
    /\ \A j \in (k + 1)..Len(name) : name[j] # "."
    /\ \E j \in 1..(k - 1) : name[j] # "."

\* name without its last extension
WithoutLastExtension(name) ==
    IF \E k \in 1..Len(name) : LastExtensionAt(name, k)
    THEN SubSeq(name, 1, (CHOOSE k \in 1..Len(name) : LastExtensionAt(name, k)) - 1)
    ELSE name

\* C11: a queue record matches a directory delivery iff the delivery's
\* basename equals the basename of the record's outputPath exactly, and a file
\* delivery iff the two basenames are equal once their last extension is
\* stripped; a directory delivery never matches a record whose name differs
\* from its own only by the extension.
C11_MatchRule ==
    run.notifier # "none" =>
        /\ (run.match_index = 1) <=>
               (IF run.is_dir
                THEN run.dest_basename = run.output_name
                ELSE WithoutLastExtension(run.dest_basename)
                         = WithoutLastExtension(run.output_name))
        /\ (/\ run.is_dir
            /\ run.dest_basename # run.output_name
            /\ WithoutLastExtension(run.dest_basename)
                   = WithoutLastExtension(run.output_name))
               => run.match_index = 0

\* a file delivery matched to a record of another extension
C11_Witness ==
    /\ run.notifier # "none"
    /\ ~run.is_dir
    /\ run.dest_basename = <<"f", ".", "k">>
    /\ run.output_name = <<"f", ".", "m">>
    /\ run.match_index = 1

\* the import-scan requests of an invocation (positions in its requests)
ImportScans(inv) == {k \in DOMAIN inv.calls : inv.calls[k].api = "post_command"}

\* the downloadId of the record the scan of the queue stopped at, if any
MatchedId(inv) ==
    IF inv.match_index = 0 THEN None
    ELSE ItemGet(inv.queue[inv.match_index], "downloadId", None)

\* C12: in both notifiers every invocation that reaches queue matching posts
\* exactly one import-scan, whose path is import_root joined with the
\* destination basename and whose downloadClientId is the matched record's
\* downloadId when that is usable (non-empty), and absent otherwise.
C12_OneImportScan ==
    \A inv \in LastInvs :
        inv.calls # <<>> =>
            /\ Cardinality(ImportScans(inv)) = 1
            /\ \A k \in ImportScans(inv) :
                  /\ inv.calls[k].path = PathJoin(inv.import_root, inv.dest_basename)
                  /\ inv.calls[k].downloadClientId =
                         (IF TruthyId(MatchedId(inv)) THEN MatchedId(inv) ELSE None)

\* a file delivery whose scan stopped at a record of another extension
OtherExtensionMatch(inv) ==
    /\ ~inv.is_dir
    /\ inv.match_index > 0
    /\ Basename(inv.queue[inv.match_index].outputPath) # inv.dest_basename

\* C13: for a file delivery matched to a queue record of a different
\* extension, the import-scan that follows is posted by path only: it never
\* carries the matched record's downloadId.
C13_PathOnlyOnOtherExtension ==
    \A inv \in LastInvs :
        OtherExtensionMatch(inv) =>
            \A k \in ImportScans(inv) : inv.calls[k].downloadClientId = None

\* C20: in notify_sonarr a directory delivery whose queue match yields a
\* usable downloadId posts no import-scan at all: the invocation returns
\* right after the matching; for directory deliveries an import-scan is
\* posted only when no usable downloadId was found.
C20_SonarrDirectorySuppressed ==
    \A inv \in LastInvs :
        (inv.notifier = "sonarr" /\ inv.is_dir /\ inv.calls # <<>>) =>
            /\ TruthyId(MatchedId(inv)) =>
                   (inv.calls = <<GetQueueCall>> /\ inv.outcome = "suppressed")
            /\ ImportScans(inv) # {} => ~TruthyId(MatchedId(inv))

\* a directory delivery of notify_sonarr matched to a record with a downloadId
C20_Witness ==
    \E inv \in LastInvs :
        /\ inv.notifier = "sonarr"
        /\ inv.is_dir
        /\ inv.match_index > 0
        /\ TruthyId(MatchedId(inv))
        /\ inv.outcome = "suppressed"

\* the position of a destination file in the task of the last run
DestPosition(path) ==
    CHOOSE j \in DOMAIN run.destination_files : run.destination_files[j] = path

\* the last run passed the destination file to import_mode
PassedToImport(path) == \E inv \in LastInvs : inv.dest_path = path

\* the last run passed the file to import_mode or skipped it for its size
Handled(path) ==
    PassedToImport(path) \/ \E k \in DOMAIN run.skipped : run.skipped[k] = path

\* C15: a path-validation failure aborts only the file concerned: import_mode
\* changes nothing on the file system and makes no request, and process_files
\* goes on to process every remaining destination file of the task.
C15_RejectionAbortsOneFile ==
    \A inv \in LastInvs :
        inv.outcome = "rejected" =>
            /\ inv.files_after = inv.files_before
            /\ inv.calls = <<>>
            /\ \A j \in DOMAIN run.destination_files :
                  j > DestPosition(inv.dest_path) => Handled(run.destination_files[j])

\* C16: the import-scan is a failure iff the response is a dict with a
\* non-empty 'message', a success for every other response (a dict without
\* message, a list, any other value); either way the invocation ends without
\* a further request.
C16_FailureIffMessage ==
    \A inv \in LastInvs :
        ImportScans(inv) # {} =>
            /\ inv.outcome \in {"failed", "imported"}
            /\ (inv.outcome = "failed") <=>
                   (/\ inv.result.type = "dict"
                    /\ "message" \in DOMAIN inv.result
                    /\ inv.result.message # "")
            /\ ImportScans(inv) = {Len(inv.calls)}

\* an import-scan answered by a dict with an empty 'message' counts as success
C16_Witness ==
    \E inv \in LastInvs :
        /\ ImportScans(inv) # {}
        /\ inv.result = [type |-> "dict", message |-> ""]
        /\ inv.outcome = "imported"

\* C19: in import mode a destination file is skipped for its size only when
\* limit_import_on_file_size is enabled, delay_import is off and the file is
\* not larger than minimum_file_size; with the limit disabled, or with
\* delay_import on, every destination file is passed to import_mode.
C19_SizeSkipNeedsLimit ==
    run.notifier # "none" =>
        /\ \A k \in DOMAIN run.skipped :
              /\ settings.limit_import_on_file_size
              /\ ~settings.delay_import
              /\ FileSizes[run.skipped[k]] <= settings.minimum_file_size
        /\ (~settings.limit_import_on_file_size \/ settings.delay_import) =>
              \A j \in DOMAIN run.destination_files :
                  PassedToImport(run.destination_files[j])

\* the updates of the last run in update mode
LastUpdates == {run.updates[k] : k \in DOMAIN run.updates}

\* the positions of the commands of that name among the requests of u
Commands(u, name) ==
    {k \in DOMAIN u.calls : u.calls[k].api = "post_command" /\ u.calls[k].name = name}

\* the rename command of u was posted after a refresh/rescan command
RenameAfterRefresh(u) ==
    \A k \in Commands(u, RenameName(u.notifier)) :
        \E j \in Commands(u, RefreshName(u.notifier)) : j < k

\* C18 as stated: in update mode the rename command is posted only when
\* rename_files is set and only after the refresh/rescan command was posted
\* and returned a response without a 'message' field, without raising a
\* handled Pyarr exception; with no movie/series id no command is posted.
C18_RenameOnlyWithoutMessageField ==
    \A u \in LastUpdates :
        /\ Commands(u, RenameName(u.notifier)) # {} =>
               /\ u.rename_files
               /\ RenameAfterRefresh(u)
               /\ u.refresh.kind = "returns"
               /\ "message" \notin DOMAIN u.refresh.value
        /\ u.id = 0 => \A k \in DOMAIN u.calls : u.calls[k].api # "post_command"

\* C18 as amended: the rename command is posted only when rename_files is set
\* and only after the refresh/rescan command was posted and returned a
\* response whose 'message' is absent or empty, without raising a handled
\* Pyarr exception; with no movie/series id no command is posted.
C18_RenameOnlyAfterRefresh ==
    \A u \in LastUpdates :
        /\ Commands(u, RenameName(u.notifier)) # {} =>
               /\ u.rename_files
               /\ RenameAfterRefresh(u)
               /\ u.refresh.kind = "returns"
               /\ ItemGet(u.refresh.value, "message", "") = ""
        /\ u.id = 0 => \A k \in DOMAIN u.calls : u.calls[k].api # "post_command"

\* a rename posted after a refresh that returned a dict without 'message'
C18_Witness ==
    \E u \in LastUpdates :
        /\ u.rename_files
        /\ Commands(u, RenameName(u.notifier)) # {}
        /\ u.refresh = Returns([type |-> "dict"])
        /\ u.outcome = "renamed"

\* the signature the plugin looks for, stated on what the probe reports: an
\* mp4 container, 'rarbg' in the title whatever the case, and a video stream
\* of codec hevc or h265
RarbgSignature(probe) ==
    /\ Contains(FormatName(probe), Mp4Name)
    /\ Contains(Lower(TitleTag(probe)), RarbgName)
    /\ \E k \in DOMAIN probe.streams :
          /\ Lower(ItemGet(probe.streams[k], "codec_type", <<>>)) = VideoType
          /\ Lower(ItemGet(probe.streams[k], "codec_name", <<>>)) \in {HevcCodec, H265Codec}

\* the command of pass k of the pipeline
ExpectedCommand(k, c) ==
    IF k = 1
    THEN /\ c.program = "ffmpeg"
         /\ Len(c.inputs) = 1 /\ Len(c.outputs) = 2
         /\ EndsWith(c.outputs[1], VideoSuffix) /\ EndsWith(c.outputs[2], AudioSuffix)
    ELSE IF k = 2
    THEN /\ c.program = "mkvmerge"
         /\ Len(c.inputs) = 1 /\ EndsWith(c.inputs[1], VideoSuffix)
         /\ Len(c.outputs) = 1 /\ EndsWith(c.outputs[1], VideoFixedSuffix)
    ELSE IF k = 3
    THEN /\ c.program = "mkvmerge"
         /\ Len(c.inputs) = 1 /\ EndsWith(c.inputs[1], AudioSuffix)
         /\ Len(c.outputs) = 1 /\ EndsWith(c.outputs[1], AudioFixedSuffix)
    ELSE /\ k = 4
         /\ c.program = "ffmpeg"
         /\ Len(c.inputs) = 2
         /\ EndsWith(c.inputs[1], VideoFixedSuffix) /\ EndsWith(c.inputs[2], AudioFixedSuffix)
         /\ Len(c.outputs) = 1 /\ EndsWith(c.outputs[1], FixedSuffix)

\* C14: from data without pass_num on an eligible file, the host invoking
\* on_worker_process again while repeat is true and every probe succeeding,
\* the commands returned are in this order the ffmpeg split (pass 1), mkvmerge
\* on the video file (pass 2), mkvmerge on the audio file (pass 3) and the
\* ffmpeg recombine (pass 4); passes 1 to 3 return repeat = True with pass_num
\* advanced by one, pass 4 returns repeat = False: four commands are issued
\* and pass_num stays within 1..4.
C14_FourPasses ==
    (RarbgSignature(run.probe) /\ run.probes_ok) =>
        /\ run.invocations <= 4
        /\ \A k \in 1..run.invocations :
              /\ ItemGet(run.returned[k].given, "pass_num", 1) = k
              /\ ExpectedCommand(k, run.returned[k].result.exec_command)
              /\ run.returned[k].result.pass_num = (IF k < 4 THEN k + 1 ELSE 4)
              /\ run.returned[k].result.repeat = (k < 4)
        /\ (run.invocations > 0 /\ ~run.data.repeat) => run.invocations = 4

\* the fourth pass has returned and the host stops
C14_Witness ==
    /\ RarbgSignature(run.probe)
    /\ run.probes_ok
    /\ run.invocations = 4
    /\ ~run.data.repeat
    /\ run.data.exec_command.program = "ffmpeg"

\* C17: on_library_management_file_test sets add_file_to_pending_tasks to
\* True iff the probe succeeds, the container format is mp4, the title tag
\* contains 'rarbg' whatever the case and some video stream has codec hevc or
\* h265; in every other case it returns data with the flag and all other
\* fields as received.
C17_FlagIffSignature ==
    run.tested =>
        IF run.test_ok /\ RarbgSignature(run.probe)
        THEN run.test_data = [run.received EXCEPT !.add_file_to_pending_tasks = TRUE]
        ELSE run.test_data = run.received

\* a file received unflagged is flagged for its upper-case H265 video stream
C17_Witness ==
    /\ run.tested
    /\ run.test_ok
    /\ ~run.received.add_file_to_pending_tasks
    /\ run.test_data.add_file_to_pending_tasks
    /\ Len(run.probe.streams) = 2

\* the file test would flag the file: it sets add_file_to_pending_tasks on
\* data received without the flag
Unflagged == [path |-> CacheFile, issues |-> <<>>, add_file_to_pending_tasks |-> FALSE]
TestWouldFlag(probe) == FileTest(Unflagged, TRUE, probe).add_file_to_pending_tasks

\* the keys of the worker data the host acts on
HostKeys == {"exec_command", "repeat", "pass_num", "file_in", "file_out"}
SameHostKeys(given, result) ==
    /\ DOMAIN result \cap HostKeys = DOMAIN given \cap HostKeys
    /\ \A key \in DOMAIN given \cap HostKeys : result[key] = given[key]

\* C21: pass 1 of on_worker_process applies the same three tests as the file
\* test (mp4 container, hevc/h265 video stream, title containing 'rarbg'): it
\* issues a command exactly for the files on_library_management_file_test
\* would flag, and for any other file, or when the probe fails, it returns
\* data with exec_command, repeat, pass_num, file_in and file_out as received.
C21_FirstPassTestsAsFileTest ==
    run.invocations >= 1 =>
        IF run.returned[1].probe_ok /\ TestWouldFlag(run.probe)
        THEN /\ run.returned[1].result.exec_command # NoCommand
             /\ ExpectedCommand(1, run.returned[1].result.exec_command)
        ELSE /\ run.returned[1].result.exec_command = NoCommand
             /\ SameHostKeys(run.returned[1].given, run.returned[1].result)

\* the first pass has issued the split for a file whose title is 'By RARBG'
\* and whose hevc stream is the second one
C21_Witness ==
    /\ run.invocations >= 1
    /\ run.returned[1].probe_ok
    /\ TestWouldFlag(run.probe)
    /\ run.returned[1].result.exec_command.program = "ffmpeg"
    /\ Len(run.probe.streams) = 2
    /\ ~Contains(TitleTag(run.probe), RarbgName)

\* the files the commands of the passes before pass k write
WrittenBy(j) ==
    { run.returned[j].result.exec_command.outputs[o] :
        o \in DOMAIN run.returned[j].result.exec_command.outputs }

WrittenBefore(k) == UNION { WrittenBy(j) : j \in 1..(k - 1) }

\* the files the command of pass k reads
ReadBy(k) ==
    { run.returned[k].result.exec_command.inputs[i] :
        i \in DOMAIN run.returned[k].result.exec_command.inputs }

\* C22: within one task, the host handing back the data object the previous
\* pass returned and every probe succeeding, the basename derived from
\* file_out is the same in all passes and every file a pass after the first
\* names as input of its command is an output of the command of an earlier
\* pass.
C22_PassesReadWhatWasWritten ==
    (run.host = "keeps" /\ run.probes_ok /\ RarbgSignature(run.probe)) =>
        \A k \in 2..run.invocations :
            /\ WorkBasename(run.returned[k].given) = WorkBasename(run.returned[1].given)
            /\ ReadBy(k) \subseteq WrittenBefore(k)

\* the same under a host that names a new '-WORKING-' file_out for each pass
C22_HoldsWhenFileOutRenewed ==
    (run.host = "resets" /\ run.probes_ok /\ RarbgSignature(run.probe)) =>
        \A k \in 2..run.invocations :
            /\ WorkBasename(run.returned[k].given) = WorkBasename(run.returned[1].given)
            /\ ReadBy(k) \subseteq WrittenBefore(k)

\* C23: under a host that invokes on_worker_process again with the returned
\* data while data['repeat'] is true, every run of the pipeline reaches an
\* invocation that returns repeat = False, whatever the probes of file_in do.
C23_EventuallyRepeatFalse ==
    (run.host = "keeps") => <>(run.invocations > 0 /\ ~run.data.repeat)

\* the same under a host that clears repeat before each invocation
C23_StopsWhenRepeatCleared ==
    (run.host = "resets") => <>(run.invocations > 0 /\ ~run.data.repeat)

\* an invocation whose probe failed returned repeat = True
C23_FailedProbeKeepsRepeat ==
    /\ run.host = "keeps"
    /\ run.invocations > 1
    /\ ~run.probe_ok
    /\ run.data.repeat

\* C25: over any sequence of output lines fed to the mkvtoolnix
\* Parser.parse_progress, the reported percent never decreases: a line
\* 'Progress: N%' changes percent to N only when N is greater than the
\* current percent, and a line without 'Progress: ' leaves percent unchanged.
C25_PercentNeverDecreases ==
    run.fed > 0 =>
        /\ PyInt(run.percent) >= PyInt(run.before)
        /\ run.percent # run.before =>
              /\ run.shape.marker
              /\ run.shape.number.numeric
              /\ run.shape.number.value > PyInt(run.before)
              /\ PyInt(run.percent) = run.shape.number.value
        /\ ~run.shape.marker => (run.percent = run.before /\ ~run.raised)

\* percent was raised a second time, from 5 to 50
C25_Witness ==
    /\ run.fed > 1
    /\ run.shape.marker
    /\ PyInt(run.before) = 5
    /\ PyInt(run.percent) = 50

\* both files are delivered and both invocations have returned
RaceOver ==
    \A i \in RaceIds : Delivered(fs_files, StagedDest(i)) /\ run.pc[i] = "done"

\* C24: when the invocations for two files of one directory delivery take
\* their steps interleaved, then once both files are delivered and both
\* invocations have returned, no file under the destination directory
\* carries the '.tmp' suffix and no invocation has failed on a rename.
C24_NoFileLeftHidden ==
    RaceOver =>
        /\ TmpUnder(fs_files, StagedDestDir) = {}
        /\ \A i \in RaceIds : ~run.rename_failed[i]

\* no rename of an interleaved invocation fails
C24_NoRenameFails == \A i \in RaceIds : ~run.rename_failed[i]

\* the invocations over, a file is hidden although the other invocation
\* posted the import-scan
C24_LeftHidden ==
    /\ RaceOver
    /\ TmpUnder(fs_files, StagedDestDir) # {}
    /\ \E i \in RaceIds : run.inv[i].outcome \in {"imported", "failed", "suppressed"}
====
